---- MODULE Spec2Model ----
(***************************************************************************)
(* A model of the custom raster-to-vector engine of img-to-svg:            *)
(* contour tracing, region growing, region merging, k-means colour         *)
(* quantization, edge detection, the vectorize pipeline that assembles     *)
(* them, and the job queue of the ConversionQueue component.               *)
(*                                                                         *)
(* Numbers: pixel coordinates and colour channels are integers.  A         *)
(* comparison of a Euclidean distance with a threshold, sqrt(s) <= t, is   *)
(* made on the squares, s <= t*t; Math.round(p/q) is (2p+q) \div 2q.       *)
(* Thresholds that the code takes as floating point numbers are taken      *)
(* from the integers, or from explicit fractions, so every comparison is   *)
(* exact.                                                                  *)
(***************************************************************************)
EXTENDS Integers, Sequences, FiniteSets, TLC

VARIABLES
    edgeMap,      \* tracing: the boolean edge mask [width, height, edges]
    options,      \* tracing: PathTracingOptions
    tracePc,      \* tracing: "idle" | "ready" | "traced" | "tracedAll"
    startPoint,   \* tracing: the start point of the last tracePath call
    path,         \* tracing: the Path returned by the last tracePath call
    paths,        \* tracing: the Path[] returned by traceAllPaths
    imageData,    \* segmentation: the raster [width, height, data]
    quantOptions, \* segmentation: ColorQuantizationOptions
    segPc,        \* segmentation: "idle" | "ready" | "detected"
    regions,      \* segmentation: the Region[] returned by detectRegions
    hierarchical, \* segmentation: conversionSettings.hierarchical, 0 stacked, 1 cutout
    merged,       \* segmentation: the Region[] returned by mergeSimilarRegions
    remerged,     \* segmentation: mergeSimilarRegions applied to its own result
    kmPc,         \* k-means: "idle" | "ready" | "done" | "ran"
    kmColors,     \* k-means: the deduplicated colour list of quantize
    kmRun,        \* k-means: what runKMeans ended with (iteration, hasConverged, ...)
    clusters,     \* k-means: the ColorCluster[] returned by quantize
    vecPc,        \* vectorize: "idle" | "called" | "edges" | "paths" | "regions" | "svg"
                  \*            | "returned" | "thrown"
    vecOptions,   \* vectorize: the options argument, a function on the keys given
    finalOptions, \* vectorize: { ...DEFAULT_OPTIONS, ...options }
    edgeResult,   \* vectorize: the EdgeDetectionResult of stage 1
    tracedPaths,  \* vectorize: the Path[] of stage 2
    quantRegions, \* vectorize: the Region[] of stage 3
    svg,          \* vectorize: the SVG text of stage 4, as its elements
    returned,     \* vectorize: the values the call returned to its caller
    raised,       \* vectorize: the exceptions raised inside the stages
    thrown,       \* vectorize: the errors the call threw to its caller
    clustersAgain, \* k-means: the ColorCluster[] of a second quantize call, same arguments
    detPc,        \* edge detection: "idle" | "ready" | "detected"
    detOptions,   \* edge detection: the detector chosen and its EdgeDetectionOptions
    detResult,    \* edge detection: the EdgeDetectionResult returned by detect
    qmPc,         \* quality metrics: "idle" | "ready" | "measured"
    svgText,      \* quality metrics: the SVG text handed to calculateQualityMetrics
    qmTime,       \* quality metrics: the processing time in milliseconds
    quality,      \* quality metrics: the record calculateQualityMetrics returned
    isoCalls,     \* two vectorize calls: per call its arguments, position and results
    sharedDefaults, \* two vectorize calls: the contents of the DEFAULT_OPTIONS object
    jobQueue,     \* ConversionQueue: the queue state, the status of each job
    isProcessing, \* ConversionQueue: the isProcessing state
    completedCount, \* ConversionQueue: the completedCount state
    errorCount,   \* ConversionQueue: the errorCount state
    loops         \* ConversionQueue: the processing loops that are suspended at an await

traceVars == <<edgeMap, options, tracePc, startPoint, path, paths>>

segVars == <<imageData, quantOptions, segPc, regions, hierarchical, merged, remerged>>

kmVars == <<kmPc, kmColors, kmRun, clusters, clustersAgain>>

detVars == <<detPc, detOptions, detResult>>

qmVars == <<qmPc, svgText, qmTime, quality>>

vecVars == <<vecPc, vecOptions, finalOptions, edgeResult, tracedPaths, quantRegions,
             svg, returned, raised, thrown>>

isoVars == <<isoCalls, sharedDefaults>>

queueVars == <<jobQueue, isProcessing, completedCount, errorCount, loops>>

\* What the actions of one component leave alone
notTraceVars == <<segVars, kmVars, vecVars, detVars, qmVars,
    isoVars, queueVars>>

notSegVars == <<traceVars, kmVars, vecVars, detVars, qmVars,
    isoVars, queueVars>>

notKmVars == <<traceVars, segPc, regions, hierarchical, merged, remerged, vecVars,
               detVars, qmVars,
    isoVars, queueVars>>

notVecVars == <<traceVars, segPc, regions, hierarchical, merged, remerged, kmVars,
                detVars, qmVars,
    isoVars, queueVars>>

notDetVars == <<traceVars, quantOptions, segPc, regions, hierarchical, merged, remerged,
                kmVars, vecVars, qmVars,
    isoVars, queueVars>>

notQmVars == <<traceVars, segVars, kmVars, vecVars, detVars,
    isoVars, queueVars>>

vars == <<edgeMap, options, tracePc, startPoint, path, paths,
          imageData, quantOptions, segPc, regions, hierarchical, merged, remerged,
          kmPc, kmColors, kmRun, clusters,
          vecPc, vecOptions, finalOptions, edgeResult, tracedPaths, quantRegions,
          svg, returned, raised, thrown, clustersAgain,
          detPc, detOptions, detResult, qmPc, svgText, qmTime, quality,
          isoCalls, sharedDefaults,
          jobQueue, isProcessing, completedCount, errorCount, loops>>

notIsoVars == <<traceVars, segVars, kmVars, vecVars, detVars, qmVars, queueVars>>

notQueueVars == <<traceVars, segVars, kmVars, vecVars, detVars, qmVars, isoVars>>

----------------------------------------------------------------------------
(* Bounds of the model *)

MaxWidth == 3
MaxHeight == 3
MaxPixels == 9
MaxMinPathLength == 2
MaxSimplification == 1
MaxRasterPixels == 4
MaxRedPixels == 6
MaxQuadrant == 2
MaxKmPixels == 4
MaxClusters == 3
MaxIterations == 2
MaxVecWidth == 6
MaxEdgeWidth == 7
MaxEdgeHeight == 4
MaxEdgePixels == 9
MaxSvgPaths == 26
MaxJobs == 2
MaxLoops == 2
MaxCount == 2

----------------------------------------------------------------------------
(* Helpers *)

Abs(n) == IF n < 0 THEN -n ELSE n

MinOf(S) == CHOOSE m \in S : \A n \in S : m <= n

MaxOf(S) == CHOOSE m \in S : \A n \in S : m >= n

\* Math.round of the fraction p/q, q > 0: the nearest integer, halves upwards.
Round(p, q) == (2 * p + q) \div (2 * q)

Pt(x, y) == [x |-> x, y |-> y]

\* The number n/d, d > 0, for an option the code takes as a floating point number
Frac(n, d) == [num |-> n, den |-> d]

Grid(w, h) == {Pt(x, y) : x \in 0..(w - 1), y \in 0..(h - 1)}

RangeOf(s) == {s[i] : i \in 1..Len(s)}

EmptyBox == [minX |-> 0, minY |-> 0, maxX |-> 0, maxY |-> 0]

\* { points: [], isClosed: false, boundingBox: {0,0,0,0} }
EmptyPath == [points |-> <<>>, isClosed |-> FALSE, boundingBox |-> EmptyBox]

----------------------------------------------------------------------------
(* Contour tracing: MooreNeighborTracer, SquareTracer, CustomPathTracer *)

\* edgeMap[y][x], guarded by isValidPixel
isValidPixel(x, y, width, height) ==
    x >= 0 /\ x < width /\ y >= 0 /\ y < height

IsEdge(map, x, y) == Pt(x, y) \in map.edges

\* 8-directional neighborhood, clockwise from top-left; index i of the code
\* is element i+1 here.
MooreNeighborTracer_DIRECTIONS ==
    << <<-1, -1>>, <<0, -1>>, <<1, -1>>,
       <<1, 0>>, <<1, 1>>, <<0, 1>>,
       <<-1, 1>>, <<-1, 0>> >>

\* The next edge pixel as a one-element sequence, << >> for null.
MooreNeighborTracer_findNextPixel(map, current, startDirection, width, height) ==
    LET dirOf(i) == MooreNeighborTracer_DIRECTIONS[((startDirection + i) % 8) + 1]
        hit(i) == /\ isValidPixel(current.x + dirOf(i)[1], current.y + dirOf(i)[2], width, height)
                  /\ IsEdge(map, current.x + dirOf(i)[1], current.y + dirOf(i)[2])
        hits == {i \in 0..7 : hit(i)}
    IN  IF hits = {} THEN << >>
        ELSE LET i == MinOf(hits)
             IN  << Pt(current.x + dirOf(i)[1], current.y + dirOf(i)[2]) >>

MooreOppositeDirection(i) == (i + 4) % 8

MooreNeighborTracer_updateDirection(current, next, currentDirection) ==
    LET dx == next.x - current.x
        dy == next.y - current.y
        found == {i \in 0..7 : MooreNeighborTracer_DIRECTIONS[i + 1] = <<dx, dy>>}
    IN  IF found = {} THEN currentDirection
        ELSE MooreOppositeDirection(MinOf(found))

\* isClosed of processPath
IsClosed(points) ==
    /\ Len(points) > 2
    /\ Abs(points[1].x - points[Len(points)].x) <= 1
    /\ Abs(points[1].y - points[Len(points)].y) <= 1

calculateBoundingBox(points) ==
    IF Len(points) = 0 THEN EmptyBox
    ELSE [minX |-> MinOf({points[i].x : i \in 1..Len(points)}),
          minY |-> MinOf({points[i].y : i \in 1..Len(points)}),
          maxX |-> MaxOf({points[i].x : i \in 1..Len(points)}),
          maxY |-> MaxOf({points[i].y : i \in 1..Len(points)})]

processPath(points) ==
    IF Len(points) = 0 THEN EmptyPath
    ELSE [points |-> points,
          isClosed |-> IsClosed(points),
          boundingBox |-> calculateBoundingBox(points)]

\* The do-while loop of MooreNeighborTracer.tracePath, from the top of its body.
HasVisitedMutant(visited, currentPoint) == FALSE

\* visited.has(key) for the key of currentPoint
HasVisited(visited, currentPoint) == currentPoint \in visited

RECURSIVE MooreNeighborTracer_loop(_, _, _, _, _, _, _)
MooreNeighborTracer_loop(map, width, height, currentPoint, direction, pts, visited) ==
    IF HasVisited(visited, currentPoint) THEN pts
    ELSE LET pts2 == Append(pts, currentPoint)
             nextPoint == MooreNeighborTracer_findNextPixel(map, currentPoint, direction, width, height)
         IN  IF nextPoint = << >> THEN pts2
             ELSE IF Len(pts2) < width * height
                  THEN MooreNeighborTracer_loop(map, width, height, nextPoint[1],
                           MooreNeighborTracer_updateDirection(currentPoint, nextPoint[1], direction),
                           pts2, visited \cup {currentPoint})
                  ELSE pts2

MooreNeighborTracer_tracePath(map, start) ==
    processPath(MooreNeighborTracer_loop(map, map.width, map.height, start, 0, << >>, {}))

\* right, down, left, up; index i of the code is element i+1 here.
SquareTracer_directions == << <<1, 0>>, <<0, 1>>, <<-1, 0>>, <<0, -1>> >>

SquareTracer_findNextPixel(map, current, direction, width, height) ==
    LET dirOf(i) == SquareTracer_directions[((direction + i) % 4) + 1]
        hit(i) == /\ isValidPixel(current.x + dirOf(i)[1], current.y + dirOf(i)[2], width, height)
                  /\ IsEdge(map, current.x + dirOf(i)[1], current.y + dirOf(i)[2])
        hits == {i \in 0..3 : hit(i)}
    IN  IF hits = {} THEN << >>
        ELSE LET i == MinOf(hits)
             IN  << Pt(current.x + dirOf(i)[1], current.y + dirOf(i)[2]) >>

SquareTracer_updateDirection(current, next, currentDirection) ==
    LET dx == next.x - current.x
        dy == next.y - current.y
    IN  IF dx = 1 /\ dy = 0 THEN 0
        ELSE IF dx = 0 /\ dy = 1 THEN 1
        ELSE IF dx = -1 /\ dy = 0 THEN 2
        ELSE IF dx = 0 /\ dy = -1 THEN 3
        ELSE currentDirection

RECURSIVE SquareTracer_loop(_, _, _, _, _, _, _)
SquareTracer_loop(map, width, height, currentPoint, direction, pts, visited) ==
    IF HasVisited(visited, currentPoint) THEN pts
    ELSE LET pts2 == Append(pts, currentPoint)
             nextPoint == SquareTracer_findNextPixel(map, currentPoint, direction, width, height)
         IN  IF nextPoint = << >> THEN pts2
             ELSE IF Len(pts2) < width * height
                  THEN SquareTracer_loop(map, width, height, nextPoint[1],
                           SquareTracer_updateDirection(currentPoint, nextPoint[1], direction),
                           pts2, visited \cup {currentPoint})
                  ELSE pts2

SquareTracer_tracePath(map, start) ==
    processPath(SquareTracer_loop(map, map.width, map.height, start, 0, << >>, {}))

\* smoothPath; the smoothing factor is the fraction factor.num / factor.den,
\* already inside [0, 1].
smoothPath(points, factor) ==
    IF Len(points) < 3 THEN points
    ELSE [i \in 1..Len(points) |->
            IF i = 1 \/ i = Len(points) THEN points[i]
            ELSE LET n == factor.num
                     d == factor.den
                     sx == 2 * points[i].x * (d - n) + (points[i - 1].x + points[i + 1].x) * n
                     sy == 2 * points[i].y * (d - n) + (points[i - 1].y + points[i + 1].y) * n
                 IN  Pt(Round(sx, 2 * d), Round(sy, 2 * d))]

\* perpendicularDistance(point, lineStart, lineEnd) > threshold
perpendicularDistanceExceeds(point, lineStart, lineEnd, threshold) ==
    LET A == point.x - lineStart.x
        B == point.y - lineStart.y
        C == lineEnd.x - lineStart.x
        D == lineEnd.y - lineStart.y
        dot == A * C + B * D
        lenSq == C * C + D * D
        t2 == threshold * threshold
    IN  IF lenSq = 0 THEN A * A + B * B > t2
        ELSE IF dot < 0 THEN A * A + B * B > t2
        ELSE IF dot > lenSq
             THEN (point.x - lineEnd.x) * (point.x - lineEnd.x)
                    + (point.y - lineEnd.y) * (point.y - lineEnd.y) > t2
        ELSE (A * lenSq - dot * C) * (A * lenSq - dot * C)
               + (B * lenSq - dot * D) * (B * lenSq - dot * D) > t2 * lenSq * lenSq

\* The for loop of simplifyPath from index i (0-based, as in the code).
RECURSIVE simplifyLoop(_, _, _, _, _)
simplifyLoop(points, threshold, i, simplified, lastPoint) ==
    IF i >= Len(points) - 1 THEN simplified
    ELSE LET current == points[i + 1]
             next == points[i + 2]
         IN  IF perpendicularDistanceExceeds(current, lastPoint, next, threshold)
             THEN simplifyLoop(points, threshold, i + 1, Append(simplified, current), current)
             ELSE simplifyLoop(points, threshold, i + 1, simplified, lastPoint)

simplifyPath(points, threshold) ==
    IF Len(points) < 3 THEN points
    ELSE Append(simplifyLoop(points, threshold, 1, <<points[1]>>, points[1]),
                points[Len(points)])

TooShortMutant(simplifiedPath, minPathLength) == Len(simplifiedPath) <= minPathLength

\* simplifiedPath.length < options.minPathLength
TooShort(simplifiedPath, minPathLength) == Len(simplifiedPath) < minPathLength

\* What tracePath works out before its length filter.
CustomRaw(map, start) == MooreNeighborTracer_tracePath(map, start)

CustomSimplified(map, start, opts) ==
    simplifyPath(smoothPath(CustomRaw(map, start).points, opts.smoothingFactor),
                 opts.simplificationThreshold)

CustomPathTracer_tracePath(map, start, opts) ==
    LET rawPath == CustomRaw(map, start)
        simplifiedPath == CustomSimplified(map, start, opts)
    IN  IF TooShort(simplifiedPath, opts.minPathLength) THEN EmptyPath
        ELSE [points |-> simplifiedPath,
              isClosed |-> rawPath.isClosed,
              boundingBox |-> calculateBoundingBox(simplifiedPath)]

\* createTracer(options.algorithm).tracePath(edgeMap, start, options)
tracePath(map, start, opts) ==
    IF opts.algorithm = "moore-neighbor" THEN MooreNeighborTracer_tracePath(map, start)
    ELSE IF opts.algorithm = "square-tracing" THEN SquareTracer_tracePath(map, start)
    ELSE IF opts.algorithm = "custom" THEN CustomPathTracer_tracePath(map, start, opts)
    ELSE MooreNeighborTracer_tracePath(map, start)

KeepsPathMutant(p, opts) == Len(p.points) > opts.minPathLength

\* path.points.length >= options.minPathLength
KeepsPath(p, opts) == Len(p.points) >= opts.minPathLength

\* The row-major scan of traceAllPaths from pixel number k = y * width + x.
RECURSIVE traceAllPathsLoop(_, _, _, _, _)
traceAllPathsLoop(map, opts, k, acc, visited) ==
    IF k >= map.width * map.height THEN acc
    ELSE LET x == k % map.width
             y == k \div map.width
         IN  IF IsEdge(map, x, y) /\ Pt(x, y) \notin visited
             THEN LET p == tracePath(map, Pt(x, y), opts)
                  IN  IF KeepsPath(p, opts)
                      THEN traceAllPathsLoop(map, opts, k + 1, Append(acc, p),
                                             visited \cup RangeOf(p.points))
                      ELSE traceAllPathsLoop(map, opts, k + 1, acc, visited)
             ELSE traceAllPathsLoop(map, opts, k + 1, acc, visited)

traceAllPaths(map, opts) == traceAllPathsLoop(map, opts, 0, << >>, {})

----------------------------------------------------------------------------
(* The tracing specification: any mask and options, then the calls *)

Algorithms == {"moore-neighbor", "square-tracing", "custom"}

SmoothingFactors == {Frac(0, 1), Frac(1, 2)}

NoSmoothing == Frac(0, 1)

\* smoothingFactor and simplificationThreshold are read by the custom tracer only
TraceOptions ==
    {[algorithm |-> a, smoothingFactor |-> NoSmoothing, simplificationThreshold |-> 0,
      minPathLength |-> m] : a \in {"moore-neighbor", "square-tracing"},
                             m \in 0..MaxMinPathLength}
    \cup
    {[algorithm |-> "custom", smoothingFactor |-> f, simplificationThreshold |-> t,
      minPathLength |-> m] : f \in SmoothingFactors, t \in 0..MaxSimplification,
                             m \in 0..MaxMinPathLength}

EdgeMaps ==
    UNION {{[width |-> w, height |-> h, edges |-> e] : e \in SUBSET Grid(w, h)} :
             <<w, h>> \in {d \in (1..MaxWidth) \X (1..MaxHeight) : d[1] * d[2] <= MaxPixels}}

NoPoint == Pt(0, 0)

TraceInit ==
    /\ edgeMap \in EdgeMaps
    /\ options \in TraceOptions
    /\ tracePc = "ready"
    /\ startPoint = NoPoint
    /\ path = EmptyPath
    /\ paths = << >>

\* A call tracer.tracePath(edgeMap, start, options) of the configured tracer
TracePath ==
    /\ tracePc = "ready"
    /\ \E s \in Grid(edgeMap.width, edgeMap.height) :
          /\ startPoint' = s
          /\ path' = tracePath(edgeMap, s, options)
    /\ tracePc' = "traced"
    /\ UNCHANGED <<edgeMap, options, paths, notTraceVars>>

\* A call PathTracingFactory.traceAllPaths(edgeMap, options)
TraceAllPaths ==
    /\ tracePc = "ready"
    /\ paths' = traceAllPaths(edgeMap, options)
    /\ tracePc' = "tracedAll"
    /\ UNCHANGED <<edgeMap, options, startPoint, path, notTraceVars>>



----------------------------------------------------------------------------
(* Colours and rasters *)

Color(r, g, b, a) == [r |-> r, g |-> g, b |-> b, a |-> a]

\* The square of colorDistance(color1, color2)
colorDistanceSq(color1, color2) ==
    (color1.r - color2.r) * (color1.r - color2.r)
      + (color1.g - color2.g) * (color1.g - color2.g)
      + (color1.b - color2.b) * (color1.b - color2.b)
      + (color1.a - color2.a) * (color1.a - color2.a)

\* colorDistance(color1, color2) <= threshold, for the threshold
\* threshold.num / threshold.den >= 0
WithinDistance(color1, color2, threshold) ==
    colorDistanceSq(color1, color2) * threshold.den * threshold.den
        <= threshold.num * threshold.num

\* colorDistance(color1, color2) < threshold
CloserThan(color1, color2, threshold) ==
    colorDistanceSq(color1, color2) * threshold.den * threshold.den
        < threshold.num * threshold.num

\* colorDistance(color1, color2) > threshold
FartherThan(color1, color2, threshold) == ~WithinDistance(color1, color2, threshold)

SumOf(seq, f(_)) ==
    LET RECURSIVE S(_)
        S(i) == IF i = 0 THEN 0 ELSE S(i - 1) + f(seq[i])
    IN  S(Len(seq))

calculateAverageColor(colors) ==
    IF Len(colors) = 0 THEN Color(0, 0, 0, 0)
    ELSE LET R(c) == c.r
             G(c) == c.g
             B(c) == c.b
             A(c) == c.a
         IN  Color(Round(SumOf(colors, R), Len(colors)),
                   Round(SumOf(colors, G), Len(colors)),
                   Round(SumOf(colors, B), Len(colors)),
                   Round(SumOf(colors, A), Len(colors)))

----------------------------------------------------------------------------
(* Region growing: RegionGrowingDetector *)

getNeighborsMutant(x, y, width, height) ==
    LET cand == << Pt(x - 1, y), Pt(x + 1, y), Pt(x, y - 1), Pt(x, y + 1),
                   Pt(x - 1, y - 1), Pt(x + 1, y + 1) >>
        inside(n) == n.x >= 0 /\ n.x < width /\ n.y >= 0 /\ n.y < height
    IN  SelectSeq(cand, inside)

\* 4-connectivity, in the order left, right, up, down
getNeighbors(x, y, width, height) ==
    LET cand == << Pt(x - 1, y), Pt(x + 1, y), Pt(x, y - 1), Pt(x, y + 1) >>
        inside(n) == n.x >= 0 /\ n.x < width /\ n.y >= 0 /\ n.y < height
    IN  SelectSeq(cand, inside)

\* region.pixels.push / region.colors.push / bounding box update of growRegion
AddPixel(region, p, currentColor) ==
    [region EXCEPT
        !.pixels = Append(@, [x |-> p.x, y |-> p.y, color |-> currentColor]),
        !.colors = Append(@, currentColor),
        !.boundingBox = [minX |-> IF p.x < @.minX THEN p.x ELSE @.minX,
                         maxX |-> IF p.x > @.maxX THEN p.x ELSE @.maxX,
                         minY |-> IF p.y < @.minY THEN p.y ELSE @.minY,
                         maxY |-> IF p.y > @.maxY THEN p.y ELSE @.maxY]]

\* The while loop of growRegion; visited is the set shared with detectRegions.
RECURSIVE growLoop(_, _, _, _, _, _)
growLoop(image, startColor, threshold, queue, visited, region) ==
    IF queue = << >> THEN [region |-> region, visited |-> visited]
    ELSE LET p == Head(queue)
         IN  IF p \in visited
             THEN growLoop(image, startColor, threshold, Tail(queue), visited, region)
             ELSE LET visited2 == visited \cup {p}
                      currentColor == image.data[p]
                      unvisited(n) == n \notin visited2
                  IN  IF WithinDistance(startColor, currentColor, threshold)
                      THEN growLoop(image, startColor, threshold,
                               Tail(queue) \o SelectSeq(getNeighbors(p.x, p.y, image.width, image.height),
                                                        unvisited),
                               visited2, AddPixel(region, p, currentColor))
                      ELSE growLoop(image, startColor, threshold, Tail(queue), visited2, region)

growRegion(image, startX, startY, visited, opts) ==
    LET region0 == [id |-> 0, colors |-> << >>, pixels |-> << >>,
                    boundingBox |-> [minX |-> startX, minY |-> startY,
                                     maxX |-> startX, maxY |-> startY],
                    area |-> 0, averageColor |-> Color(0, 0, 0, 0)]
        grown == growLoop(image, image.data[Pt(startX, startY)], opts.regionGrowingThreshold,
                          << Pt(startX, startY) >>, visited, region0)
    IN  [region |-> [grown.region EXCEPT !.area = Len(grown.region.pixels),
                                         !.averageColor = calculateAverageColor(grown.region.colors)],
         visited |-> grown.visited]

\* The row-major scan of detectRegions from pixel number k = y * width + x.
RECURSIVE detectRegionsLoop(_, _, _, _, _, _)
detectRegionsLoop(image, opts, k, visited, acc, regionId) ==
    IF k >= image.width * image.height THEN acc
    ELSE LET x == k % image.width
             y == k \div image.width
         IN  IF Pt(x, y) \notin visited
             THEN LET g == growRegion(image, x, y, visited, opts)
                  IN  IF Len(g.region.pixels) > 0
                      THEN detectRegionsLoop(image, opts, k + 1, g.visited,
                               Append(acc, [g.region EXCEPT !.id = regionId]), regionId + 1)
                      ELSE detectRegionsLoop(image, opts, k + 1, g.visited, acc, regionId)
             ELSE detectRegionsLoop(image, opts, k + 1, visited, acc, regionId)

detectRegions(image, opts) == detectRegionsLoop(image, opts, 0, {}, << >>, 0)

----------------------------------------------------------------------------
(* Organizing and merging regions: HierarchicalRegionOrganizer *)

\* Array.prototype.sort with the comparator cmp: a stable sort; Insert puts x
\* behind every element that does not compare greater than x.
StableSort(seq, cmp(_, _)) ==
    LET RECURSIVE Insert(_, _)
        Insert(sorted, x) ==
            IF sorted = << >> THEN << x >>
            ELSE IF cmp(sorted[Len(sorted)], x) <= 0 THEN Append(sorted, x)
            ELSE Append(Insert(SubSeq(sorted, 1, Len(sorted) - 1), x), sorted[Len(sorted)])
        RECURSIVE Sort(_)
        Sort(n) == IF n = 0 THEN << >> ELSE Insert(Sort(n - 1), seq[n])
    IN  Sort(Len(seq))

organizeStacked(rs) ==
    LET cmp(a, b) == b.area - a.area
    IN  StableSort(rs, cmp)

organizeCutout(rs) ==
    LET cmp(a, b) == a.area - b.area
    IN  StableSort(rs, cmp)

organizeRegions(rs, hierarchicalMode) ==
    IF hierarchicalMode = "stacked" THEN organizeStacked(rs) ELSE organizeCutout(rs)

regionsAreSimilar(region1, region2, threshold) ==
    WithinDistance(region1.averageColor, region2.averageColor, threshold)

AverageColorMutant(colors) ==
    IF Len(colors) = 0 THEN Color(0, 0, 0, 0)
    ELSE LET R(c) == c.r
             G(c) == c.g
             B(c) == c.b
             A(c) == c.a
         IN  Color(SumOf(colors, R) \div Len(colors),
                   SumOf(colors, G) \div Len(colors),
                   SumOf(colors, B) \div Len(colors),
                   SumOf(colors, A) \div Len(colors))

HierarchicalRegionOrganizer_calculateAverageColor(colors) ==
    IF Len(colors) = 0 THEN Color(0, 0, 0, 0)
    ELSE LET R(c) == c.r
             G(c) == c.g
             B(c) == c.b
             A(c) == c.a
         IN  Color(Round(SumOf(colors, R), Len(colors)),
                   Round(SumOf(colors, G), Len(colors)),
                   Round(SumOf(colors, B), Len(colors)),
                   Round(SumOf(colors, A), Len(colors)))

Concat(seq, f(_)) ==
    LET RECURSIVE C(_)
        C(n) == IF n = 0 THEN << >> ELSE C(n - 1) \o f(seq[n])
    IN  C(Len(seq))

\* mergeRegions of a list of at least one region
mergeRegions(rs) ==
    LET cols(r) == r.colors
        pixs(r) == r.pixels
        area(r) == r.area
        allColors == Concat(rs, cols)
    IN  [id |-> rs[1].id,
         colors |-> allColors,
         pixels |-> Concat(rs, pixs),
         boundingBox |-> [minX |-> MinOf({rs[i].boundingBox.minX : i \in 1..Len(rs)}),
                          minY |-> MinOf({rs[i].boundingBox.minY : i \in 1..Len(rs)}),
                          maxX |-> MaxOf({rs[i].boundingBox.maxX : i \in 1..Len(rs)}),
                          maxY |-> MaxOf({rs[i].boundingBox.maxY : i \in 1..Len(rs)})],
         area |-> SumOf(rs, area),
         averageColor |-> HierarchicalRegionOrganizer_calculateAverageColor(allColors)]

MarkProcessedMutant(processed, otherRegion) == processed

\* processed.add(otherRegion.id)
MarkProcessed(processed, otherRegion) == processed \cup {otherRegion.id}

\* The inner forEach of mergeSimilarRegions from index j
RECURSIVE findSimilar(_, _, _, _, _, _)
findSimilar(rs, region, threshold, j, similarRegions, processed) ==
    IF j > Len(rs) THEN [similarRegions |-> similarRegions, processed |-> processed]
    ELSE IF rs[j].id \in processed
         THEN findSimilar(rs, region, threshold, j + 1, similarRegions, processed)
    ELSE IF regionsAreSimilar(region, rs[j], threshold)
         THEN findSimilar(rs, region, threshold, j + 1, Append(similarRegions, rs[j]),
                          MarkProcessed(processed, rs[j]))
    ELSE findSimilar(rs, region, threshold, j + 1, similarRegions, processed)

\* The outer forEach of mergeSimilarRegions from index i
RECURSIVE mergeSimilarLoop(_, _, _, _, _)
mergeSimilarLoop(rs, threshold, i, acc, processed) ==
    IF i > Len(rs) THEN acc
    ELSE IF rs[i].id \in processed
         THEN mergeSimilarLoop(rs, threshold, i + 1, acc, processed)
    ELSE LET found == findSimilar(rs, rs[i], threshold, 1, << rs[i] >>,
                                  processed \cup {rs[i].id})
         IN  IF Len(found.similarRegions) > 1
             THEN mergeSimilarLoop(rs, threshold, i + 1,
                                   Append(acc, mergeRegions(found.similarRegions)),
                                   found.processed)
             ELSE mergeSimilarLoop(rs, threshold, i + 1, Append(acc, rs[i]), found.processed)

mergeSimilarRegions(rs, similarityThreshold) ==
    mergeSimilarLoop(rs, similarityThreshold, 1, << >>, {})

----------------------------------------------------------------------------
(* The segmentation specification: any raster and options, then detectRegions *)

Red == Color(255, 0, 0, 255)
Green == Color(0, 255, 0, 255)
Blue == Color(0, 0, 255, 255)
Yellow == Color(255, 255, 0, 255)
Red249 == Color(249, 0, 0, 255)
Red246 == Color(246, 0, 0, 255)

Palette == {Red, Green, Red249, Red246}

Reds == {Red, Red249, Red246}

Dims(maxPixels) ==
    {d \in (1..MaxWidth) \X (1..MaxHeight) : d[1] * d[2] <= maxPixels}

RastersOver(colors, maxPixels) ==
    UNION {{[width |-> d[1], height |-> d[2], data |-> f] : f \in [Grid(d[1], d[2]) -> colors]} :
             d \in Dims(maxPixels)}

\* small rasters of any colours, and larger ones of nearby shades of red
QuadrantColors == {Red, Green, Blue, Yellow}

\* rasters of 2n x 2n pixels made of four solid quadrants of four colours
QuadrantRasters ==
    {[width |-> 2 * n, height |-> 2 * n,
      data |-> [p \in Grid(2 * n, 2 * n) |-> q[<<p.x \div n, p.y \div n>>]]] :
        n \in 1..MaxQuadrant,
        q \in {f \in [(0..1) \X (0..1) -> QuadrantColors] :
                  \A a, b \in (0..1) \X (0..1) : a # b => f[a] # f[b]}}

Rasters ==
    RastersOver(Palette, MaxRasterPixels) \cup RastersOver(Reds, MaxRedPixels)
        \cup QuadrantRasters

RegionGrowingThresholds == {Frac(0, 1), Frac(25, 1)}

ColorSimilarityThresholds == {Frac(0, 1), Frac(6, 1), Frac(30, 1)}

\* The k-means options are not read by region growing and merging.
QuantOptions ==
    {[kMeansClusters |-> 8, colorSimilarityThreshold |-> s, regionGrowingThreshold |-> g,
      maxIterations |-> 100, convergenceThreshold |-> Frac(5, 1)] :
        g \in RegionGrowingThresholds, s \in ColorSimilarityThresholds}

SegInit ==
    /\ imageData \in Rasters
    /\ quantOptions \in QuantOptions
    /\ segPc = "ready"
    /\ regions = << >>
    /\ hierarchical \in {0, 1}
    /\ merged = << >>
    /\ remerged = << >>

\* A call RegionGrowingDetector.detectRegions(imageData, options)
DetectRegions ==
    /\ segPc = "ready"
    /\ regions' = detectRegions(imageData, quantOptions)
    /\ segPc' = "detected"
    /\ UNCHANGED <<imageData, quantOptions, hierarchical, merged, remerged, notSegVars>>

\* A call HierarchicalRegionOrganizer.organizeRegions(regions, hierarchicalMode),
\* which sorts the array it is given in place
OrganizeRegions ==
    /\ segPc = "detected"
    /\ regions' = organizeRegions(regions, IF hierarchical = 0 THEN "stacked" ELSE "cutout")
    /\ segPc' = "organized"
    /\ UNCHANGED <<imageData, quantOptions, hierarchical, merged, remerged, notSegVars>>

\* A call HierarchicalRegionOrganizer.mergeSimilarRegions(regions, colorSimilarityThreshold)
MergeSimilarRegions ==
    /\ segPc \in {"detected", "organized"}
    /\ merged' = mergeSimilarRegions(regions, quantOptions.colorSimilarityThreshold)
    /\ segPc' = "merged"
    /\ UNCHANGED <<imageData, quantOptions, hierarchical, regions, remerged, notSegVars>>

\* mergeSimilarRegions called again on the list it returned, same threshold
MergeAgain ==
    /\ segPc = "merged"
    /\ remerged' = mergeSimilarRegions(merged, quantOptions.colorSimilarityThreshold)
    /\ segPc' = "remerged"
    /\ UNCHANGED <<imageData, quantOptions, hierarchical, regions, merged, notSegVars>>

TraceIdle ==
    /\ edgeMap = [width |-> 1, height |-> 1, edges |-> {}]
    /\ options = [algorithm |-> "moore-neighbor", smoothingFactor |-> NoSmoothing,
                  simplificationThreshold |-> 0, minPathLength |-> 0]
    /\ tracePc = "idle"
    /\ startPoint = NoPoint
    /\ path = EmptyPath
    /\ paths = << >>

NoImage ==
    /\ imageData = [width |-> 1, height |-> 1, data |-> [p \in Grid(1, 1) |-> Red]]
    /\ quantOptions = [kMeansClusters |-> 8, colorSimilarityThreshold |-> Frac(30, 1),
                       regionGrowingThreshold |-> Frac(25, 1), maxIterations |-> 100,
                       convergenceThreshold |-> Frac(5, 1)]

SegIdle ==
    /\ segPc = "idle"
    /\ regions = << >>
    /\ hierarchical = 0
    /\ merged = << >>
    /\ remerged = << >>

----------------------------------------------------------------------------
(* K-means colour quantization: KMeansColorQuantizer *)

ColorExistsMutant(colors, color, threshold) ==
    \E i \in 1..Len(colors) : WithinDistance(colors[i], color, threshold)

\* colors.some(existing => colorDistance(existing, color) < threshold)
colorExists(colors, color, threshold) ==
    \E i \in 1..Len(colors) : CloserThan(colors[i], color, threshold)

\* The pixel with number k in the flat RGBA array
PixelAt(image, k) == image.data[Pt(k % image.width, k \div image.width)]

\* The first loop of quantize from pixel number k
RECURSIVE extractColors(_, _, _, _)
extractColors(image, threshold, k, colors) ==
    IF k >= image.width * image.height THEN colors
    ELSE IF colorExists(colors, PixelAt(image, k), threshold)
         THEN extractColors(image, threshold, k + 1, colors)
         ELSE extractColors(image, threshold, k + 1, Append(colors, PixelAt(image, k)))

nearestClusterIndexMutant(color, cs) ==
    MaxOf({i \in 1..Len(cs) :
              \A j \in 1..Len(cs) :
                  colorDistanceSq(color, cs[i].centroid) <= colorDistanceSq(color, cs[j].centroid)})

\* The index of the cluster nearest to color: the first of the nearest ones,
\* as the scan keeps an earlier cluster on equal distance.
nearestClusterIndex(color, cs) ==
    MinOf({i \in 1..Len(cs) :
              \A j \in 1..Len(cs) :
                  colorDistanceSq(color, cs[i].centroid) <= colorDistanceSq(color, cs[j].centroid)})

\* "Clear previous assignments" and "Assign each color to nearest centroid"
assignColors(colors, cs) ==
    LET RECURSIVE A(_)
        A(n) == IF n = 0 THEN [i \in 1..Len(cs) |-> [cs[i] EXCEPT !.pixels = << >>]]
                ELSE LET prev == A(n - 1)
                         to == nearestClusterIndex(colors[n], cs)
                     IN  [prev EXCEPT ![to].pixels = Append(@, colors[n])]
    IN  A(Len(colors))

StillConvergedMutant(hasConverged, oldCentroid, newCentroid, convergenceThreshold) ==
    ~FartherThan(oldCentroid, newCentroid, convergenceThreshold)

\* if (distance > convergenceThreshold) hasConverged = false
StillConverged(hasConverged, oldCentroid, newCentroid, convergenceThreshold) ==
    hasConverged /\ ~FartherThan(oldCentroid, newCentroid, convergenceThreshold)

KMeans_calculateAverageColor(colors) ==
    LET R(c) == c.r
        G(c) == c.g
        B(c) == c.b
        A(c) == c.a
    IN  Color(Round(SumOf(colors, R), Len(colors)),
              Round(SumOf(colors, G), Len(colors)),
              Round(SumOf(colors, B), Len(colors)),
              Round(SumOf(colors, A), Len(colors)))

\* updateCentroids: the clusters with their new centroids, and hasConverged
updateCentroids(cs, convergenceThreshold) ==
    LET RECURSIVE U(_)
        U(n) == IF n = 0 THEN [clusters |-> cs, hasConverged |-> TRUE]
                ELSE LET prev == U(n - 1)
                     IN  IF Len(cs[n].pixels) = 0 THEN prev
                         ELSE LET newCentroid == KMeans_calculateAverageColor(cs[n].pixels)
                              IN  [clusters |-> [prev.clusters EXCEPT ![n].centroid = newCentroid],
                                   hasConverged |-> StillConverged(prev.hasConverged, cs[n].centroid,
                                                                   newCentroid, convergenceThreshold)]
    IN  U(Len(cs))

\* One round of the while loop of runKMeans
kMeansRound(colors, cs, opts) ==
    updateCentroids(assignColors(colors, cs), opts.convergenceThreshold)

\* The while loop of runKMeans; before holds the centroids at the start of the
\* last round made, starts the centroids at the start of every round made.
RECURSIVE kMeansLoop(_, _, _, _, _, _, _)
kMeansLoop(colors, cs, opts, iteration, hasConverged, before, starts) ==
    IF ~hasConverged /\ iteration < opts.maxIterations
    THEN LET round == kMeansRound(colors, cs, opts)
         IN  kMeansLoop(colors, round.clusters, opts, iteration + 1, round.hasConverged,
                        [i \in 1..Len(cs) |-> cs[i].centroid],
                        Append(starts, [i \in 1..Len(cs) |-> cs[i].centroid]))
    ELSE [clusters |-> cs, iteration |-> iteration, hasConverged |-> hasConverged,
          before |-> before, starts |-> starts]

calculateClusterBoundingBox(pixels) == [minX |-> 0, minY |-> 0, maxX |-> 100, maxY |-> 100]

runKMeans(colors, centroids, opts) ==
    LET start == [i \in 1..Len(centroids) |->
                    [centroid |-> centroids[i], pixels |-> << >>, boundingBox |-> EmptyBox]]
        run == kMeansLoop(colors, start, opts, 0, FALSE, centroids, << >>)
    IN  [run EXCEPT !.clusters =
            [i \in 1..Len(run.clusters) |->
                IF Len(run.clusters[i].pixels) > 0
                THEN [run.clusters[i] EXCEPT
                        !.boundingBox = calculateClusterBoundingBox(run.clusters[i].pixels)]
                ELSE run.clusters[i]]]

\* What initializeCentroids can return: the colours at k distinct random
\* indices, in the order drawn.
InitialCentroids(colors, k) ==
    {[i \in 1..k |-> colors[idx[i]]] :
        idx \in {f \in [1..k -> 1..Len(colors)] : \A a, b \in 1..k : a # b => f[a] # f[b]}}

\* quantize when every colour becomes a cluster of its own
oneClusterPerColor(image, colors) ==
    [i \in 1..Len(colors) |->
        [centroid |-> colors[i], pixels |-> << colors[i] >>,
         boundingBox |-> [minX |-> 0, minY |-> 0,
                          maxX |-> image.width - 1, maxY |-> image.height - 1]]]

NoRun == [clusters |-> << >>, iteration |-> 0, hasConverged |-> FALSE, before |-> << >>,
          starts |-> << >>]

Greys == {Color(0, 0, 0, 255), Color(3, 0, 0, 255), Color(4, 0, 0, 255)}

KmRasters == RastersOver(Greys, MaxKmPixels)

KmOptions ==
    {[kMeansClusters |-> k, colorSimilarityThreshold |-> s, regionGrowingThreshold |-> Frac(25, 1),
      maxIterations |-> m, convergenceThreshold |-> c] :
        k \in 1..MaxClusters,
        s \in {Frac(0, 1), Frac(1, 2), Frac(1, 1), Frac(30, 1)},
        m \in 1..MaxIterations,
        c \in {Frac(0, 1), Frac(1, 2), Frac(1, 1)}}

KmInit ==
    /\ imageData \in KmRasters
    /\ quantOptions \in KmOptions
    /\ kmPc = "ready"
    /\ kmColors = << >>
    /\ kmRun = NoRun
    /\ clusters = << >>
    /\ clustersAgain = << >>

KmIdle ==
    /\ kmPc = "idle"
    /\ kmColors = << >>
    /\ kmRun = NoRun
    /\ clusters = << >>
    /\ clustersAgain = << >>

\* A call KMeansColorQuantizer.quantize(imageData, options) that returns at
\* once, with each colour as a cluster
QuantizeFewColors ==
    /\ kmPc = "ready"
    /\ LET colors == extractColors(imageData, quantOptions.colorSimilarityThreshold, 0, << >>)
       IN  /\ Len(colors) <= quantOptions.kMeansClusters
           /\ kmColors' = colors
           /\ clusters' = oneClusterPerColor(imageData, colors)
    /\ kmRun' = NoRun
    /\ kmPc' = "done"
    /\ UNCHANGED <<imageData, quantOptions, clustersAgain, notKmVars>>

\* A call KMeansColorQuantizer.quantize(imageData, options) that runs k-means
\* from randomly drawn centroids
QuantizeKMeans ==
    /\ kmPc = "ready"
    /\ LET colors == extractColors(imageData, quantOptions.colorSimilarityThreshold, 0, << >>)
       IN  /\ Len(colors) > quantOptions.kMeansClusters
           /\ kmColors' = colors
           /\ \E centroids \in InitialCentroids(colors, quantOptions.kMeansClusters) :
                 kmRun' = runKMeans(colors, centroids, quantOptions)
    /\ clusters' = kmRun'.clusters
    /\ kmPc' = "ran"
    /\ UNCHANGED <<imageData, quantOptions, clustersAgain, notKmVars>>

----------------------------------------------------------------------------
(* Edge detection: SobelEdgeDetector *)

\* An array with every element computed once
Filled(array) == array @@ << >>

\* Math.round(0.299 * r + 0.587 * g + 0.114 * b)
rgbToGrayscale(r, g, b) == Round(299 * r + 587 * g + 114 * b, 1000)

\* The kernels sobelX[ky + 1][kx + 1] and sobelY[ky + 1][kx + 1], rows first
sobelXMutant == << <<-1, -2, -1>>, <<0, 0, 0>>, <<1, 2, 1>> >>

sobelX == << <<-1, 0, 1>>, <<-2, 0, 2>>, <<-1, 0, 1>> >>

sobelY == << <<-1, -2, -1>>, <<0, 0, 0>>, <<1, 2, 1>> >>

GrayAt(image, x, y) ==
    rgbToGrayscale(image.data[Pt(x, y)].r, image.data[Pt(x, y)].g, image.data[Pt(x, y)].b)

\* gx and gy of the pixel (x, y), which is not on the border
SobelGradient(image, x, y) ==
    LET Offsets == (-1..1) \X (-1..1)
        RECURSIVE Sum(_, _)
        Sum(S, kernel) ==
            IF S = {} THEN 0
            ELSE LET k == CHOOSE k \in S : TRUE
                 IN  GrayAt(image, x + k[1], y + k[2]) * kernel[k[2] + 2][k[1] + 2]
                       + Sum(S \ {k}, kernel)
    IN  [gx |-> Sum(Offsets, sobelX), gy |-> Sum(Offsets, sobelY)]

IsInterior(image, p) ==
    p.x >= 1 /\ p.x < image.width - 1 /\ p.y >= 1 /\ p.y < image.height - 1

ExceedsThresholdMutant(g, threshold) ==
    (g.gx * g.gx + g.gy * g.gy) * threshold.den * threshold.den
        >= threshold.num * threshold.num

\* mag > options.threshold, with mag = sqrt(gx * gx + gy * gy)
ExceedsThreshold(g, threshold) ==
    (g.gx * g.gx + g.gy * g.gy) * threshold.den * threshold.den
        > threshold.num * threshold.num

\* new ImageData(width, height) is transparent black; the loops of detect write
\* the pixels that are not on the border.  The gradient stands for magnitude
\* and direction, which are sqrt(gx^2 + gy^2) and atan2(gy, gx).
SobelEdgeDetector_detect(image, opts) ==
    LET zero == [gx |-> 0, gy |-> 0]
        grad == Filled([p \in Grid(image.width, image.height) |->
                    IF IsInterior(image, p) THEN SobelGradient(image, p.x, p.y) ELSE zero])
    IN  [edges |-> [width |-> image.width, height |-> image.height,
                    data |-> [p \in Grid(image.width, image.height) |->
                                IF ~IsInterior(image, p) THEN Color(0, 0, 0, 0)
                                ELSE IF ExceedsThreshold(grad[p], opts.threshold)
                                     THEN Color(255, 255, 255, 255)
                                     ELSE Color(0, 0, 0, 255)]],
         gradient |-> grad]

----------------------------------------------------------------------------
(* Edge detection: CannyEdgeDetector and AdaptiveEdgeDetector *)

\* What a Uint8ClampedArray stores for the value p / q: the nearest integer,
\* a tie going to the even one, kept within 0..255
ToUint8Clamped(p, q) ==
    LET whole == p \div q
        rest == p % q
        nearest == IF 2 * rest < q THEN whole
                   ELSE IF 2 * rest > q THEN whole + 1
                   ELSE IF whole % 2 = 0 THEN whole ELSE whole + 1
    IN  IF nearest < 0 THEN 0 ELSE IF nearest > 255 THEN 255 ELSE nearest

\* The kernel of applyGaussianBlur, whose weights are divided by 16
gaussianKernel == << <<1, 2, 1>>, <<2, 4, 2>>, <<1, 2, 1>> >>

\* new ImageData(width, height) is transparent black; the loops write red,
\* green and blue and alpha 255 of the pixels that are not on the border
applyGaussianBlur(image) ==
    LET Offsets == (-1..1) \X (-1..1)
        Blurred(p, channel) ==
            LET RECURSIVE Sum(_)
                Sum(S) ==
                    IF S = {} THEN 0
                    ELSE LET k == CHOOSE k \in S : TRUE
                         IN  image.data[Pt(p.x + k[1], p.y + k[2])][channel]
                                * gaussianKernel[k[2] + 2][k[1] + 2]
                               + Sum(S \ {k})
            IN  ToUint8Clamped(Sum(Offsets), 16)
    IN  [width |-> image.width, height |-> image.height,
         data |-> Filled([p \in Grid(image.width, image.height) |->
                     IF IsInterior(image, p)
                     THEN Color(Blurred(p, "r"), Blurred(p, "g"), Blurred(p, "b"), 255)
                     ELSE Color(0, 0, 0, 0)])]

\* The square of the magnitude sqrt(gx * gx + gy * gy) of a gradient
MagnitudeSq(g) == g.gx * g.gx + g.gy * g.gy

\* quantizeDirection(atan2(gy, gx)): the angle taken modulo pi falls in one of
\* four sectors, 0 for [0, pi/8) and [7pi/8, pi), 1 for [pi/8, 3pi/8), 2 for
\* [3pi/8, 5pi/8) and 3 for [5pi/8, 7pi/8).  With tan(pi/8) = sqrt(2) - 1 and
\* tan(3pi/8) = sqrt(2) + 1 the sector is decided on integers: for u, v > 0,
\* v < (sqrt(2) - 1) u iff (u + v)^2 < 2 u^2, and v < (sqrt(2) + 1) u iff
\* v <= u or (v - u)^2 < 2 u^2.
quantizeDirection(g) ==
    LET \* the same line with gy >= 0
        u == IF g.gy < 0 THEN -g.gx ELSE g.gx
        v == Abs(g.gy)
        a == Abs(u)
        shallow == (a + v) * (a + v) < 2 * a * a
        steep == ~(v <= a \/ (v - a) * (v - a) < 2 * a * a)
    IN  IF v = 0 THEN 0
        ELSE IF u = 0 THEN 2
        ELSE IF shallow THEN 0
        ELSE IF steep THEN 2
        ELSE IF u > 0 THEN 1 ELSE 3

\* The neighbours that nonMaximumSuppression compares a pixel with, those
\* inside the raster
CannyEdgeDetector_getNeighbors(x, y, direction, width, height) ==
    LET both == CASE direction = 0 -> <<Pt(x - 1, y), Pt(x + 1, y)>>
                  [] direction = 1 -> <<Pt(x - 1, y - 1), Pt(x + 1, y + 1)>>
                  [] direction = 2 -> <<Pt(x, y - 1), Pt(x, y + 1)>>
                  [] direction = 3 -> <<Pt(x + 1, y - 1), Pt(x - 1, y + 1)>>
                  [] OTHER -> << >>
    IN  SelectSeq(both, LAMBDA n : isValidPixel(n.x, n.y, width, height))

\* result[y][x] = isLocalMax ? mag : 0 for the pixels that are not on the
\* border, 0 on the border; magnitudes are kept as their squares
nonMaximumSuppression(gradient, width, height) ==
    LET image == [width |-> width, height |-> height]
        isLocalMax(p) ==
            LET neighbors == CannyEdgeDetector_getNeighbors(p.x, p.y,
                                 quantizeDirection(gradient[p]), width, height)
            IN  \A i \in 1..Len(neighbors) :
                    ~(MagnitudeSq(gradient[neighbors[i]]) > MagnitudeSq(gradient[p]))
    IN  Filled([p \in Grid(width, height) |->
            IF IsInterior(image, p) /\ isLocalMax(p) THEN MagnitudeSq(gradient[p]) ELSE 0])

\* The largest integer whose square is at most n
IntegerSqrt(n) ==
    LET RECURSIVE Search(_, _)
        Search(lo, hi) ==
            IF lo = hi THEN lo
            ELSE LET mid == (lo + hi + 1) \div 2
                 IN  IF mid * mid <= n THEN Search(mid, hi) ELSE Search(lo, mid - 1)
    IN  Search(0, 46340)

\* mag >= threshold for mag = sqrt(magSq) and a threshold num / den >= 0,
\* decided without a product that leaves 32 bits
AtLeast(magSq, threshold) ==
    LET whole == threshold.num \div threshold.den
        rest == threshold.num % threshold.den
        root == IntegerSqrt(magSq)
    IN  IF root > whole THEN TRUE
        ELSE IF root < whole THEN FALSE
        ELSE (magSq - whole * whole) * threshold.den * threshold.den
                >= 2 * whole * rest * threshold.den + rest * rest

\* if (mag >= highThreshold) strong; else if (mag >= lowThreshold) weak
StrongPixels(magnitude, highThreshold) ==
    {p \in DOMAIN magnitude : AtLeast(magnitude[p], highThreshold)}

WeakPixels(magnitude, lowThreshold, highThreshold) ==
    {p \in DOMAIN magnitude :
        ~AtLeast(magnitude[p], highThreshold) /\ AtLeast(magnitude[p], lowThreshold)}

\* The pixels that trackEdges visits around (x, y), dy outermost
TrackOffsets ==
    << <<-1, -1>>, <<0, -1>>, <<1, -1>>, <<-1, 0>>, <<1, 0>>, <<-1, 1>>, <<0, 1>>, <<1, 1>> >>

\* Which neighbours trackEdges goes on to
FollowsMutant(p, strong, weak) == p \in strong

\* if (strong[ny][nx] || weak[ny][nx]) trackEdges(...)
Follows(p, strong, weak) == p \in strong \/ p \in weak

\* trackEdges(x, y, ...): the recursion of the code, with its pending calls
\* kept as a stack; result is the set of pixels with result[y][x] = true
trackEdges(stack, strong, weak, result, width, height) ==
    LET RECURSIVE Track(_, _)
        Track(pending, res) ==
            IF pending = << >> THEN res
            ELSE LET p == Head(pending)
                 IN  IF ~isValidPixel(p.x, p.y, width, height) \/ p \in res
                     THEN Track(Tail(pending), res)
                     ELSE LET around == [i \in 1..8 |->
                                            Pt(p.x + TrackOffsets[i][1],
                                               p.y + TrackOffsets[i][2])]
                              next == SelectSeq(around,
                                          LAMBDA n : /\ isValidPixel(n.x, n.y, width, height)
                                                     /\ Follows(n, strong, weak))
                          IN  Track(next \o Tail(pending), res \cup {p})
    IN  Track(stack, result)

\* doubleThresholding: trackEdges from every strong pixel, rows first
doubleThresholding(magnitude, lowThreshold, highThreshold, width, height) ==
    LET strong == StrongPixels(magnitude, highThreshold)
        weak == WeakPixels(magnitude, lowThreshold, highThreshold)
        RECURSIVE Rows(_, _)
        Rows(k, result) ==
            IF k = width * height THEN result
            ELSE LET p == Pt(k % width, k \div width)
                 IN  Rows(k + 1, IF p \in strong
                                 THEN trackEdges(<<p>>, strong, weak, result, width, height)
                                 ELSE result)
    IN  Rows(0, {})

OrDefaultMutant(threshold, default) == Frac(0, 1)

\* options.lowThreshold || 25 and options.highThreshold || 75
OrDefault(threshold, default) == IF threshold.num = 0 THEN default ELSE threshold

\* The magnitudes that CannyEdgeDetector.detect thresholds
CannySuppressed(image) ==
    nonMaximumSuppression(
        SobelEdgeDetector_detect(applyGaussianBlur(image), [threshold |-> Frac(0, 1)]).gradient,
        image.width, image.height)

CannyEdgeDetector_detect(image, opts) ==
    LET lowThreshold == OrDefault(opts.lowThreshold, Frac(25, 1))
        highThreshold == OrDefault(opts.highThreshold, Frac(75, 1))
        blurred == applyGaussianBlur(image)
        sobelResult == SobelEdgeDetector_detect(blurred, [threshold |-> Frac(0, 1)])
        suppressed == nonMaximumSuppression(sobelResult.gradient, image.width, image.height)
        edges == doubleThresholding(suppressed, lowThreshold, highThreshold,
                                    image.width, image.height)
    IN  [edges |-> [width |-> image.width, height |-> image.height,
                    data |-> [p \in Grid(image.width, image.height) |->
                                IF p \in edges THEN Color(255, 255, 255, 255)
                                ELSE Color(0, 0, 0, 255)]],
         gradient |-> sobelResult.gradient]

\* The sum of the grey values of the pixels, and of their squares
GraySum(image, square) ==
    LET RECURSIVE Sum(_)
        Sum(k) ==
            IF k = image.width * image.height THEN 0
            ELSE LET gray == GrayAt(image, k % image.width, k \div image.width)
                 IN  (IF square THEN gray * gray ELSE gray) + Sum(k + 1)
    IN  Sum(0)

\* count * count * variance / count, the square of count * stdDev
ScaledVariance(image) ==
    image.width * image.height * GraySum(image, TRUE)
        - GraySum(image, FALSE) * GraySum(image, FALSE)

\* The rasters whose standard deviation is a rational number, for which
\* mean + 1.5 * stdDev is a fraction
HasRationalDeviation(image) ==
    IntegerSqrt(ScaledVariance(image)) * IntegerSqrt(ScaledVariance(image))
        = ScaledVariance(image)

\* Math.min(255, Math.max(10, mean + 1.5 * stdDev)), with mean = sum / count
\* and stdDev = sqrt(count * sumOfSquares - sum * sum) / count
calculateAdaptiveThreshold(image) ==
    LET count == image.width * image.height
        raw == Frac(2 * GraySum(image, FALSE) + 3 * IntegerSqrt(ScaledVariance(image)),
                    2 * count)
    IN  IF raw.num < 10 * raw.den THEN Frac(10, 1)
        ELSE IF raw.num > 255 * raw.den THEN Frac(255, 1)
        ELSE raw

\* Canny with lowThreshold = adaptiveThreshold * 0.5 and highThreshold =
\* adaptiveThreshold
AdaptiveEdgeDetector_detect(image, opts) ==
    LET adaptiveThreshold == calculateAdaptiveThreshold(image)
    IN  CannyEdgeDetector_detect(image,
            [opts EXCEPT !.lowThreshold = Frac(adaptiveThreshold.num,
                                               2 * adaptiveThreshold.den),
                         !.highThreshold = adaptiveThreshold])

----------------------------------------------------------------------------
(* The pipeline: CustomVectorizer *)

DEFAULT_OPTIONS ==
    [edgeDetection |-> [threshold |-> Frac(50, 1), lowThreshold |-> Frac(25, 1),
                        highThreshold |-> Frac(75, 1), gaussianBlur |-> 1],
     pathTracing |-> [algorithm |-> "moore-neighbor", smoothingFactor |-> Frac(3, 10),
                      simplificationThreshold |-> 2, minPathLength |-> 10],
     colorQuantization |-> [kMeansClusters |-> 8, colorSimilarityThreshold |-> Frac(30, 1),
                            regionGrowingThreshold |-> Frac(25, 1), maxIterations |-> 100,
                            convergenceThreshold |-> Frac(5, 1)],
     conversionSettings |-> [colorMode |-> 0, colorPrecision |-> 6, filterSpeckle |-> 4,
                             spliceThreshold |-> 45, cornerThreshold |-> 60,
                             hierarchical |-> 0, mode |-> 2, layerDifference |-> 5,
                             lengthThreshold |-> 5, maxIterations |-> 2, pathPrecision |-> 5],
     customSettings |->
        [edgeDetection |-> [type |-> "adaptive", sobelThreshold |-> Frac(50, 1),
                            cannyLowThreshold |-> Frac(25, 1),
                            cannyHighThreshold |-> Frac(75, 1),
                            adaptiveThreshold |-> Frac(30, 1)],
         pathTracing |-> [algorithm |-> "custom", smoothingFactor |-> Frac(3, 10),
                          simplificationThreshold |-> 2],
         colorQuantization |-> [kMeansClusters |-> 8,
                                colorSimilarityThreshold |-> Frac(30, 1),
                                regionGrowingThreshold |-> Frac(25, 1)]]]

\* { ...this.DEFAULT_OPTIONS, ...options }: a top-level key of options replaces
\* the whole default object of that key.  options is a function on the keys
\* the caller gave.
MergeOptions(defaults, given) ==
    [k \in DOMAIN defaults |-> IF k \in DOMAIN given THEN given[k] ELSE defaults[k]]

\* The switch of performEdgeDetection on customSettings.edgeDetection.type
performEdgeDetection(image, opts) ==
    CASE opts.customSettings.edgeDetection.type = "sobel" ->
            SobelEdgeDetector_detect(image,
                [opts.edgeDetection EXCEPT
                    !.threshold = opts.customSettings.edgeDetection.sobelThreshold])
      [] opts.customSettings.edgeDetection.type = "canny" ->
            CannyEdgeDetector_detect(image,
                [opts.edgeDetection EXCEPT
                    !.lowThreshold = opts.customSettings.edgeDetection.cannyLowThreshold,
                    !.highThreshold = opts.customSettings.edgeDetection.cannyHighThreshold])
      [] OTHER ->
            AdaptiveEdgeDetector_detect(image,
                [opts.edgeDetection EXCEPT
                    !.threshold = opts.customSettings.edgeDetection.adaptiveThreshold])

\* result[y][x] = data[index] > 0 || data[index + 1] > 0 || data[index + 2] > 0
imageDataToBooleanArray(image) ==
    [width |-> image.width, height |-> image.height,
     edges |-> {p \in Grid(image.width, image.height) :
                   image.data[p].r > 0 \/ image.data[p].g > 0 \/ image.data[p].b > 0}]

performPathTracing(edges, opts) ==
    traceAllPaths(imageDataToBooleanArray(edges.edges),
        [opts.pathTracing EXCEPT
            !.algorithm = opts.customSettings.pathTracing.algorithm,
            !.smoothingFactor = opts.customSettings.pathTracing.smoothingFactor,
            !.simplificationThreshold = opts.customSettings.pathTracing.simplificationThreshold])

performColorQuantization(image, opts) ==
    LET detected == detectRegions(image,
                        [opts.colorQuantization EXCEPT
                            !.regionGrowingThreshold =
                                opts.customSettings.colorQuantization.regionGrowingThreshold])
        hierarchicalMode == IF opts.conversionSettings.hierarchical = 0
                            THEN "stacked" ELSE "cutout"
        organizedRegions == organizeRegions(detected, hierarchicalMode)
    IN  mergeSimilarRegions(organizedRegions, opts.colorQuantization.colorSimilarityThreshold)

\* The SVG text is kept as the sequence of its elements, in the order written.
\* color.a / 255 is kept as the fraction.
generateSVGDefinitions(rs) ==
    [tag |-> "defs",
     gradients |-> [i \in 1..Len(rs) |->
                      [id |-> i - 1,
                       stopColor |-> <<rs[i].averageColor.r, rs[i].averageColor.g,
                                       rs[i].averageColor.b>>,
                       stopOpacity |-> Frac(rs[i].averageColor.a, 255)]]]

generateRegionSVG(region) ==
    [tag |-> "rect",
     x |-> region.boundingBox.minX,
     y |-> region.boundingBox.minY,
     width |-> region.boundingBox.maxX - region.boundingBox.minX,
     height |-> region.boundingBox.maxY - region.boundingBox.minY,
     fill |-> <<region.averageColor.r, region.averageColor.g, region.averageColor.b>>,
     opacity |-> Frac(region.averageColor.a, 255)]

SkipsPathMutant(p) == Len(p.points) < 1

\* if (path.points.length < 2) return ''
SkipsPath(p) == Len(p.points) < 2

\* The elements generatePathSVG writes for a path: none for the empty string
generatePathSVG(p, opts) ==
    IF SkipsPath(p) THEN << >>
    ELSE LET pathData ==
                 [i \in 1..Len(p.points) |->
                     <<IF i = 1 THEN "M" ELSE "L", p.points[i].x, p.points[i].y>>]
                   \o (IF p.isClosed THEN << <<"Z">> >> ELSE << >>)
             strokeWidth == MaxOf({1, opts.conversionSettings.pathPrecision})
             strokeColor == IF opts.conversionSettings.colorMode = 0
                            THEN "#000000" ELSE "#ffffff"
         IN  << [tag |-> "path", d |-> pathData, stroke |-> strokeColor,
                 strokeWidth |-> strokeWidth, fill |-> "none"] >>

generateSVG(ps, rs, image, opts) ==
    LET RECURSIVE PathElements(_)
        PathElements(n) ==
            IF n = 0 THEN << >> ELSE PathElements(n - 1) \o generatePathSVG(ps[n], opts)
    IN  << [tag |-> "svg", viewBox |-> <<0, 0, image.width, image.height>>,
            width |-> image.width, height |-> image.height] >>
          \o << generateSVGDefinitions(rs) >>
          \o [i \in 1..Len(rs) |-> generateRegionSVG(rs[i])]
          \o PathElements(Len(ps))
          \o << [tag |-> "/svg"] >>

\* The number of characters of the decimal text of n >= 0
RECURSIVE DecimalLength(_)
DecimalLength(n) == IF n < 10 THEN 1 ELSE 1 + DecimalLength(n \div 10)

\* The number of characters of `${color.a / 255}`, for the alphas 0 and 255
OpacityLength(opacity) ==
    CASE opacity.num = 0 -> 1
      [] opacity.num = opacity.den -> 1

\* new Blob([svg]).size: the text is ASCII, one byte for each character.  The
\* numbers are the lengths of the fixed text of the templates.
ElementSize(e) ==
    LET Rgb(c) == DecimalLength(c[1]) + DecimalLength(c[2]) + DecimalLength(c[3])
        Command(c) == IF c[1] = "Z" THEN 2
                      ELSE (IF c[1] = "M" THEN 3 ELSE 4)
                             + DecimalLength(c[2]) + DecimalLength(c[3])
        Gradient(g) == 72 + DecimalLength(g.id)
                         + 68 + 70 + 2 * (Rgb(g.stopColor) + OpacityLength(g.stopOpacity))
                         + 22
    IN  CASE e.tag = "svg" -> 76 + 2 * (DecimalLength(e.width) + DecimalLength(e.height))
          [] e.tag = "defs" -> 9 + SumOf(e.gradients, Gradient) + 10
          [] e.tag = "rect" -> 66 + DecimalLength(e.x) + DecimalLength(e.y)
                                 + DecimalLength(e.width) + DecimalLength(e.height)
                                 + Rgb(e.fill) + OpacityLength(e.opacity)
          [] e.tag = "path" -> 54 + SumOf(e.d, Command) + 7 + DecimalLength(e.strokeWidth)
          [] e.tag = "/svg" -> 6

BlobSize(text) == SumOf(text, ElementSize)

CountPathTagsMutant(text) == Cardinality({i \in 1..Len(text) : text[i].tag = "rect"})

\* (svg.match(/<path/g) || []).length
CountPathTags(text) == Cardinality({i \in 1..Len(text) : text[i].tag = "path"})

\* calculateQualityMetrics; processingTime is performance.now() - startTime in
\* whole milliseconds.
calculateQualityMetrics(text, processingTime) ==
    LET \* 100 - (processingTime / 1000) * 10, in hundredths
        raw == 10000 - processingTime
        accuracy == MinOf({9500, MaxOf({6000, raw})})
        pathCount == CountPathTags(text)
        smoothness == MinOf({90, MaxOf({50, 100 - pathCount * 2})})
    IN  [accuracy |-> Round(accuracy, 100),
         smoothness |-> smoothness,
         fileSize |-> BlobSize(text),
         processingTime |-> processingTime]

calculateMetadata(image, ps, rs) ==
    LET Points(p) == Len(p.points)
        uniqueColors == UNION {RangeOf(rs[i].colors) : i \in 1..Len(rs)}
    IN  [originalSize |-> [width |-> image.width, height |-> image.height],
         vectorizedSize |-> [width |-> image.width, height |-> image.height],
         pathCount |-> SumOf(ps, Points),
         colorCount |-> Cardinality(uniqueColors)]

\* An exception value: an Error has a message, kept as the sequence of the
\* pieces of text it is concatenated from.
Error(name, message) == [isError |-> TRUE, name |-> name, message |-> message]

WrapErrorMutant(error) ==
    Error("Error", <<"Custom vectorization failed: ", "Unknown error">>)

\* new Error(`Custom vectorization failed: ${error instanceof Error ?
\* error.message : 'Unknown error'}`)
WrapError(error) ==
    Error("Error", <<"Custom vectorization failed: ">>
                     \o (IF error.isError THEN error.message ELSE <<"Unknown error">>))

----------------------------------------------------------------------------
(* The vectorize specification: one call of CustomVectorizer.vectorize *)

Black == Color(0, 0, 0, 255)
White == Color(255, 255, 255, 255)

\* rasters of three rows made of solid black and white columns
VecRasters ==
    UNION {{[width |-> w, height |-> 3, data |-> [p \in Grid(w, 3) |-> columns[p.x + 1]]] :
              columns \in [1..w -> {Black, White}]} : w \in 3..MaxVecWidth}

CustomSettingsChoices ==
    {[DEFAULT_OPTIONS.customSettings EXCEPT
         !.edgeDetection.type = "sobel",
         !.edgeDetection.sobelThreshold = t,
         !.pathTracing.algorithm = a] :
        t \in {Frac(50, 1), Frac(1020, 1)}, a \in Algorithms}

PathTracingChoices ==
    {[DEFAULT_OPTIONS.pathTracing EXCEPT !.minPathLength = m] : m \in {0, 2}}

ConversionSettingsChoices ==
    {[DEFAULT_OPTIONS.conversionSettings EXCEPT
         !.colorMode = 1, !.hierarchical = 1, !.pathPrecision = 0]}

\* The options argument: the keys the caller gives, each with a whole object
VecOptions ==
    {[k \in {"customSettings"} \cup given |->
        CASE k = "customSettings" -> c
          [] k = "pathTracing" -> p
          [] k = "conversionSettings" -> s] :
        c \in CustomSettingsChoices, p \in PathTracingChoices,
        s \in ConversionSettingsChoices,
        given \in SUBSET {"pathTracing", "conversionSettings"}}

\* performance.now() - startTime, in milliseconds
ProcessingTimes == {0, 450, 2050, 5000}

\* What the runtime raises when a stage runs out of stack or of string length.
\* Every value the stages and the runtime throw is an Error.
StageErrors ==
    {Error("RangeError", <<"Maximum call stack size exceeded">>),
     Error("RangeError", <<"Invalid string length">>)}

\* The name measurePerformance is given for the stage that runs at vecPc
StageAt(pc) ==
    CASE pc = "called" -> "Edge Detection"
      [] pc = "edges" -> "Path Tracing"
      [] pc = "paths" -> "Color Quantization"
      [] pc = "regions" -> "SVG Generation"

NoEdges == [edges |-> [width |-> 0, height |-> 0, data |-> << >>], gradient |-> << >>]

VecStart ==
    /\ finalOptions = DEFAULT_OPTIONS
    /\ edgeResult = NoEdges
    /\ tracedPaths = << >>
    /\ quantRegions = << >>
    /\ svg = << >>
    /\ returned = << >>
    /\ raised = << >>
    /\ thrown = << >>

VecInit ==
    /\ imageData \in VecRasters
    /\ quantOptions = DEFAULT_OPTIONS.colorQuantization
    /\ vecOptions \in VecOptions
    /\ vecPc = "called"
    /\ VecStart

VecIdle ==
    /\ vecOptions = << >>
    /\ vecPc = "idle"
    /\ VecStart

\* vectorize up to its first await: the options are merged and the edge
\* detection stage runs
EdgeDetection ==
    /\ vecPc = "called"
    /\ finalOptions' = MergeOptions(DEFAULT_OPTIONS, vecOptions)
    /\ edgeResult' = performEdgeDetection(imageData, finalOptions')
    /\ vecPc' = "edges"
    /\ UNCHANGED <<imageData, quantOptions, vecOptions, tracedPaths, quantRegions, svg,
                   returned, raised, thrown, notVecVars>>

PathTracing ==
    /\ vecPc = "edges"
    /\ tracedPaths' = performPathTracing(edgeResult, finalOptions)
    /\ vecPc' = "paths"
    /\ UNCHANGED <<imageData, quantOptions, vecOptions, finalOptions, edgeResult,
                   quantRegions, svg, returned, raised, thrown, notVecVars>>

ColorQuantization ==
    /\ vecPc = "paths"
    /\ quantRegions' = performColorQuantization(imageData, finalOptions)
    /\ vecPc' = "regions"
    /\ UNCHANGED <<imageData, quantOptions, vecOptions, finalOptions, edgeResult,
                   tracedPaths, svg, returned, raised, thrown, notVecVars>>

GenerateSVGMutant ==
    /\ vecPc \in {"paths", "regions"}
    /\ svg' = generateSVG(tracedPaths, quantRegions, imageData, finalOptions)
    /\ vecPc' = "svg"
    /\ UNCHANGED <<imageData, quantOptions, vecOptions, finalOptions, edgeResult,
                   tracedPaths, quantRegions, returned, raised, thrown, notVecVars>>

GenerateSVG ==
    /\ vecPc = "regions"
    /\ svg' = generateSVG(tracedPaths, quantRegions, imageData, finalOptions)
    /\ vecPc' = "svg"
    /\ UNCHANGED <<imageData, quantOptions, vecOptions, finalOptions, edgeResult,
                   tracedPaths, quantRegions, returned, raised, thrown, notVecVars>>

\* Steps 5 and 6 and the return of vectorize
ReturnResult ==
    /\ vecPc = "svg"
    /\ \E processingTime \in ProcessingTimes :
          returned' = << [svg |-> svg,
                          quality |-> calculateQualityMetrics(svg, processingTime),
                          metadata |-> calculateMetadata(imageData, tracedPaths,
                                                         quantRegions)] >>
    /\ vecPc' = "returned"
    /\ UNCHANGED <<imageData, quantOptions, vecOptions, finalOptions, edgeResult,
                   tracedPaths, quantRegions, svg, raised, thrown, notVecVars>>

\* The stage that runs at vecPc throws: measurePerformance throws the error
\* again and the catch block of vectorize throws the wrapped error.
StageThrows ==
    /\ vecPc \in {"called", "edges", "paths", "regions"}
    /\ \E error \in StageErrors :
          /\ raised' = Append(raised, [stage |-> StageAt(vecPc), error |-> error])
          /\ thrown' = Append(thrown, WrapError(error))
    /\ finalOptions' = MergeOptions(DEFAULT_OPTIONS, vecOptions)
    /\ vecPc' = "thrown"
    /\ UNCHANGED <<imageData, quantOptions, vecOptions, edgeResult, tracedPaths,
                   quantRegions, svg, returned, notVecVars>>

----------------------------------------------------------------------------
(* Calls of the three edge detectors *)

Grey100 == Color(100, 100, 100, 255)

UniformColors == {Black, White, Grey100, Red}

\* rasters whose pixels are all the same
UniformRasters ==
    {[width |-> w, height |-> h, data |-> [p \in Grid(w, h) |-> c]] :
        w \in 1..MaxEdgeWidth, h \in 1..MaxEdgeHeight, c \in UniformColors}

\* rasters made of solid black and white columns; among them the rasters
\* whose left half is black and whose right half is white
ColumnRasters ==
    UNION {{[width |-> w, height |-> h, data |-> [p \in Grid(w, h) |-> columns[p.x + 1]]] :
              columns \in [1..w -> {Black, White}]} :
           w \in 1..MaxEdgeWidth, h \in 1..MaxEdgeHeight}

EdgeRasters == UniformRasters \cup ColumnRasters \cup RastersOver({Black, White}, MaxEdgePixels)

SobelThresholds == {Frac(0, 1), Frac(50, 1)}

\* lowThreshold and highThreshold; 0 stands for an option that is not given
CannyThresholds ==
    {<<Frac(0, 1), Frac(0, 1)>>, <<Frac(25, 1), Frac(75, 1)>>,
     <<Frac(300, 1), Frac(900, 1)>>, <<Frac(900, 1), Frac(300, 1)>>}

DetOptions ==
    {[type |-> "sobel", threshold |-> t, lowThreshold |-> Frac(25, 1),
      highThreshold |-> Frac(75, 1)] : t \in SobelThresholds}
    \cup {[type |-> "canny", threshold |-> Frac(50, 1), lowThreshold |-> t[1],
           highThreshold |-> t[2]] : t \in CannyThresholds}
    \cup {[type |-> "adaptive", threshold |-> Frac(30, 1), lowThreshold |-> Frac(25, 1),
           highThreshold |-> Frac(75, 1)]}

DetInit ==
    /\ imageData \in EdgeRasters
    /\ quantOptions = DEFAULT_OPTIONS.colorQuantization
    /\ detOptions \in DetOptions
    /\ detOptions.type = "adaptive" => HasRationalDeviation(imageData)
    /\ detPc = "ready"
    /\ detResult = NoEdges

DetIdle ==
    /\ detPc = "idle"
    /\ detOptions = [type |-> "sobel", threshold |-> Frac(50, 1),
                     lowThreshold |-> Frac(25, 1), highThreshold |-> Frac(75, 1)]
    /\ detResult = NoEdges

\* A call SobelEdgeDetector.detect(imageData, options)
SobelDetect ==
    /\ detPc = "ready"
    /\ detOptions.type = "sobel"
    /\ detResult' = SobelEdgeDetector_detect(imageData, detOptions)
    /\ detPc' = "detected"
    /\ UNCHANGED <<imageData, detOptions, notDetVars>>

\* A call CannyEdgeDetector.detect(imageData, options)
CannyDetect ==
    /\ detPc = "ready"
    /\ detOptions.type = "canny"
    /\ detResult' = CannyEdgeDetector_detect(imageData, detOptions)
    /\ detPc' = "detected"
    /\ UNCHANGED <<imageData, detOptions, notDetVars>>

\* A call AdaptiveEdgeDetector.detect(imageData, options)
AdaptiveDetect ==
    /\ detPc = "ready"
    /\ detOptions.type = "adaptive"
    /\ detResult' = AdaptiveEdgeDetector_detect(imageData, detOptions)
    /\ detPc' = "detected"
    /\ UNCHANGED <<imageData, detOptions, notDetVars>>

----------------------------------------------------------------------------
(* Calls of calculateQualityMetrics *)

\* A path of two points, which generatePathSVG writes as one <path>
TwoPointPath == processPath(<<Pt(0, 0), Pt(1, 0)>>)

\* The SVG text of n paths and no region
SvgOfPaths(n) ==
    generateSVG([i \in 1..n |-> TwoPointPath], << >>,
                [width |-> 2, height |-> 1], DEFAULT_OPTIONS)

\* performance.now() - startTime, in milliseconds
QualityTimes == {0, 450, 500, 550, 2050, 3950, 4000, 4050, 5000, 60000}

NoQuality == [accuracy |-> 0, smoothness |-> 0, fileSize |-> 0, processingTime |-> 0]

QmInit ==
    /\ \E n \in 0..MaxSvgPaths : svgText = SvgOfPaths(n)
    /\ qmTime \in QualityTimes
    /\ qmPc = "ready"
    /\ quality = NoQuality

QmIdle ==
    /\ qmPc = "idle"
    /\ svgText = << >>
    /\ qmTime = 0
    /\ quality = NoQuality

\* A call calculateQualityMetrics(originalImage, svg, startTime)
CalculateQualityMetrics ==
    /\ qmPc = "ready"
    /\ quality' = calculateQualityMetrics(svgText, qmTime)
    /\ qmPc' = "measured"
    /\ UNCHANGED <<svgText, qmTime, notQmVars>>

\* A second call KMeansColorQuantizer.quantize(imageData, options) with the
\* arguments of the first
QuantizeAgain ==
    /\ kmPc \in {"done", "ran"}
    /\ LET colors == extractColors(imageData, quantOptions.colorSimilarityThreshold, 0, << >>)
       IN  IF Len(colors) <= quantOptions.kMeansClusters
           THEN clustersAgain' = oneClusterPerColor(imageData, colors)
           ELSE \E centroids \in InitialCentroids(colors, quantOptions.kMeansClusters) :
                    clustersAgain' = runKMeans(colors, centroids, quantOptions).clusters
    /\ kmPc' = "again"
    /\ UNCHANGED <<imageData, quantOptions, kmColors, kmRun, clusters, notKmVars>>

----------------------------------------------------------------------------
(* Specifications: one per component, the other components idle *)

IsoIdle ==
    /\ isoCalls = << >>
    /\ sharedDefaults = DEFAULT_OPTIONS

QueueIdle ==
    /\ jobQueue = << >>
    /\ isProcessing = FALSE
    /\ completedCount = 0
    /\ errorCount = 0
    /\ loops = << >>

TraceSpecInit == TraceInit /\ NoImage /\ SegIdle /\ KmIdle /\ VecIdle /\ DetIdle /\ QmIdle
                     /\ IsoIdle /\ QueueIdle

TraceNext == TracePath \/ TraceAllPaths

SpecTrace == TraceSpecInit /\ [][TraceNext]_vars

RegionsSpecInit == SegInit /\ TraceIdle /\ KmIdle /\ VecIdle /\ DetIdle /\ QmIdle
                     /\ IsoIdle /\ QueueIdle

RegionsNext == DetectRegions

SpecRegions == RegionsSpecInit /\ [][RegionsNext]_vars

MergeSpecInit == SegInit /\ TraceIdle /\ KmIdle /\ VecIdle /\ DetIdle /\ QmIdle
                     /\ IsoIdle /\ QueueIdle

MergeNext == DetectRegions \/ OrganizeRegions \/ MergeSimilarRegions \/ MergeAgain

SpecMerge == MergeSpecInit /\ [][MergeNext]_vars

KMeansSpecInit == KmInit /\ TraceIdle /\ SegIdle /\ VecIdle /\ DetIdle /\ QmIdle
                     /\ IsoIdle /\ QueueIdle

KMeansNext == QuantizeFewColors \/ QuantizeKMeans

SpecKMeans == KMeansSpecInit /\ [][KMeansNext]_vars

VectorizeSpecInit == VecInit /\ TraceIdle /\ SegIdle /\ KmIdle /\ DetIdle /\ QmIdle
                     /\ IsoIdle /\ QueueIdle

VectorizeNext ==
    \/ EdgeDetection
    \/ PathTracing
    \/ ColorQuantization
    \/ GenerateSVG
    \/ ReturnResult
    \/ StageThrows

SpecVectorize == VectorizeSpecInit /\ [][VectorizeNext]_vars

EdgesSpecInit == DetInit /\ TraceIdle /\ SegIdle /\ KmIdle /\ VecIdle /\ QmIdle
                     /\ IsoIdle /\ QueueIdle

EdgesNext == SobelDetect \/ CannyDetect \/ AdaptiveDetect

SpecEdges == EdgesSpecInit /\ [][EdgesNext]_vars

QualitySpecInit == QmInit /\ NoImage /\ TraceIdle /\ SegIdle /\ KmIdle /\ VecIdle /\ DetIdle
                     /\ IsoIdle /\ QueueIdle

QualityNext == CalculateQualityMetrics

SpecQuality == QualitySpecInit /\ [][QualityNext]_vars

TwiceSpecInit == KmInit /\ TraceIdle /\ SegIdle /\ VecIdle /\ DetIdle /\ QmIdle
                     /\ IsoIdle /\ QueueIdle

TwiceNext == QuantizeFewColors \/ QuantizeKMeans \/ QuantizeAgain

SpecTwice == TwiceSpecInit /\ [][TwiceNext]_vars

----------------------------------------------------------------------------
(* Claims about contour tracing, checked under SpecTrace *)

PathPointSet(ps) == UNION {RangeOf(ps[i].points) : i \in 1..Len(ps)}

C2_NoDuplication ==
    tracePc = "tracedAll" =>
        \A i, j \in 1..Len(paths) :
            i < j =>
                /\ RangeOf(paths[i].points) \cap RangeOf(paths[j].points) = {}
                /\ Len(paths[j].points) > 0 => paths[j].points[1] \notin RangeOf(paths[i].points)

\* C4: a path returned by tracePath of any of the three tracers is closed
\* exactly when it has more than 2 points and its first and last points
\* differ by at most 1 in x and in y.
C4_ClosureCorrectness ==
    tracePc = "traced" =>
        (path.isClosed <=>
            /\ Len(path.points) > 2
            /\ Abs(path.points[1].x - path.points[Len(path.points)].x) <= 1
            /\ Abs(path.points[1].y - path.points[Len(path.points)].y) <= 1)

\* C10: CustomPathTracer.tracePath returns the empty Path exactly when the
\* path left after smoothing and simplification has fewer than minPathLength
\* points, and otherwise a non-empty path made of those points.
C10_MinimumPathLength ==
    (tracePc = "traced" /\ options.algorithm = "custom") =>
        LET simplified == CustomSimplified(edgeMap, startPoint, options)
        IN  IF Len(simplified) < options.minPathLength
            THEN path.points = << >> /\ ~path.isClosed
            ELSE path.points # << >> /\ path.points = simplified

\* a custom trace from an edge pixel with a neighbour, discarded as too short,
\* and one of the same length that is kept
C10_Witness ==
    /\ tracePc = "traced"
    /\ options.algorithm = "custom"
    /\ startPoint \in edgeMap.edges
    /\ Len(CustomSimplified(edgeMap, startPoint, options)) = 2
    /\ options.minPathLength = 2
    /\ Len(path.points) = 2

----------------------------------------------------------------------------
(* Claims about region growing, checked under SpecRegions *)

RegionPoints(region) == {Pt(region.pixels[i].x, region.pixels[i].y) : i \in 1..Len(region.pixels)}

\* The number of (region, index) places at which pixel p is listed
Occurrences(rs, p) ==
    Cardinality(UNION {{<<i, j>> : j \in {n \in 1..Len(rs[i].pixels) :
                                            Pt(rs[i].pixels[n].x, rs[i].pixels[n].y) = p}} :
                       i \in 1..Len(rs)})

\* C3: every pixel of the raster is in the pixel list of exactly one region
\* returned by detectRegions.
C3_RegionPartition ==
    segPc = "detected" =>
        \A p \in Grid(imageData.width, imageData.height) : Occurrences(regions, p) = 1

Quadrant(image, p) == <<p.x \div (image.width \div 2), p.y \div (image.height \div 2)>>

IsQuadrantRaster(image) ==
    /\ image.width = image.height
    /\ image.width % 2 = 0
    /\ \A p, q \in Grid(image.width, image.height) :
          IF Quadrant(image, p) = Quadrant(image, q)
          THEN image.data[p] = image.data[q]
          ELSE FartherThan(image.data[p], image.data[q], quantOptions.regionGrowingThreshold)

\* C8: on a raster of four equal quadrants of four solid colours that are
\* pairwise farther apart than regionGrowingThreshold, detectRegions returns
\* exactly 4 regions, each of area (raster area)/4 and of its quadrant's colour.
C8_QuadrantScenario ==
    (segPc = "detected" /\ IsQuadrantRaster(imageData)) =>
        /\ Len(regions) = 4
        /\ \A i \in 1..Len(regions) :
              /\ regions[i].area = (imageData.width * imageData.height) \div 4
              /\ \E c \in Grid(imageData.width, imageData.height) :
                    /\ RegionPoints(regions[i]) \subseteq
                          {p \in Grid(imageData.width, imageData.height) :
                              Quadrant(imageData, p) = Quadrant(imageData, c)}
                    /\ regions[i].averageColor = imageData.data[c]

----------------------------------------------------------------------------
(* Claims about merging regions, checked under SpecMerge *)

RegionSummary(r) == [pixels |-> RangeOf(r.pixels), area |-> r.area, averageColor |-> r.averageColor]

\* The same number of regions with the same pixel sets, areas and average colours
SameRegions(a, b) ==
    /\ Len(a) = Len(b)
    /\ {RegionSummary(a[i]) : i \in 1..Len(a)} = {RegionSummary(b[i]) : i \in 1..Len(b)}

\* No two regions of the list have average colours within the threshold
PairwiseApart(rs, threshold) ==
    \A i, j \in 1..Len(rs) :
        i # j => FartherThan(rs[i].averageColor, rs[j].averageColor, threshold)

\* C6 (as stated): merging the merged list again with the same threshold
\* changes nothing.
C6_MergeIdempotent ==
    segPc = "remerged" => SameRegions(remerged, merged)

\* C6 (amended): merging the merged list again changes nothing whenever the
\* average colours of the merged regions are pairwise farther apart than the
\* threshold, and that is always so for the threshold 0.
C6_MergeIdempotentWhenApart ==
    segPc = "remerged" =>
        /\ PairwiseApart(merged, quantOptions.colorSimilarityThreshold) => SameRegions(remerged, merged)
        /\ quantOptions.colorSimilarityThreshold.num = 0 =>
              PairwiseApart(merged, quantOptions.colorSimilarityThreshold)

\* a merge that joined regions, left several, and whose repetition changes nothing
C6_Witness ==
    /\ segPc = "remerged"
    /\ Len(merged) < Len(regions)
    /\ Len(merged) >= 2
    /\ PairwiseApart(merged, quantOptions.colorSimilarityThreshold)
    /\ SameRegions(remerged, merged)

----------------------------------------------------------------------------
(* Claims about k-means, checked under SpecKMeans *)

Centroids(cs) == [i \in 1..Len(cs) |-> cs[i].centroid]

\* One more assign-then-recompute round on the returned clusters
OneMoreRound == kMeansRound(kmColors, clusters, quantOptions)

\* C7 (as stated): when the loop stopped on convergence, with iterations to
\* spare, one more round moves no centroid by more than convergenceThreshold.
C7_ConvergedStaysConverged ==
    (kmPc = "ran" /\ kmRun.hasConverged /\ kmRun.iteration < quantOptions.maxIterations) =>
        \A i \in 1..Len(clusters) :
            ~FartherThan(clusters[i].centroid, OneMoreRound.clusters[i].centroid,
                         quantOptions.convergenceThreshold)

\* C7 (amended): when the loop stopped on convergence, its last round moved no
\* centroid by more than convergenceThreshold, and when convergenceThreshold
\* is below 1 one more round leaves every centroid where it is.
C7_ConvergedLastRoundAndFixedPoint ==
    (kmPc = "ran" /\ kmRun.hasConverged) =>
        /\ \A i \in 1..Len(clusters) :
              ~FartherThan(kmRun.before[i], clusters[i].centroid, quantOptions.convergenceThreshold)
        /\ quantOptions.convergenceThreshold.num < quantOptions.convergenceThreshold.den =>
              Centroids(OneMoreRound.clusters) = Centroids(clusters)

\* a run that converged only after a round that moved a centroid
C7_Witness ==
    /\ kmPc = "ran"
    /\ kmRun.hasConverged
    /\ kmRun.iteration = 2
    /\ quantOptions.convergenceThreshold = Frac(1, 2)
    /\ Centroids(OneMoreRound.clusters) = Centroids(clusters)

DistinctColors(image) == {image.data[p] : p \in Grid(image.width, image.height)}

OneClusterPerDistinctColor ==
    /\ Len(clusters) = Cardinality(DistinctColors(imageData))
    /\ RangeOf(Centroids(clusters)) = DistinctColors(imageData)

----------------------------------------------------------------------------
(* The vectorize pipeline *)

\* The text part occurs in the text whole, as consecutive pieces
ContainsText(whole, part) ==
    \E i \in 1..(Len(whole) - Len(part) + 1) : SubSeq(whole, i, i + Len(part) - 1) = part

\* An SVG document that is whole: the root element opened first and closed
\* last, the definitions, a rect for each region, and nothing but rects and
\* paths in between
CompleteSvg(text, rs) ==
    /\ Len(text) >= 3
    /\ text[1].tag = "svg"
    /\ text[2].tag = "defs"
    /\ Len(text[2].gradients) = Len(rs)
    /\ text[Len(text)].tag = "/svg"
    /\ \A i \in 3..(Len(text) - 1) : text[i].tag \in {"rect", "path"}
    /\ Cardinality({i \in 1..Len(text) : text[i].tag = "rect"}) = Len(rs)

CompleteResult(r, rs) ==
    /\ DOMAIN r = {"svg", "quality", "metadata"}
    /\ CompleteSvg(r.svg, rs)
    /\ DOMAIN r.quality = {"accuracy", "smoothness", "fileSize", "processingTime"}
    /\ \A k \in DOMAIN r.quality : r.quality[k] \in Nat
    /\ DOMAIN r.metadata = {"originalSize", "vectorizedSize", "pathCount", "colorCount"}
    /\ r.metadata.pathCount \in Nat
    /\ r.metadata.colorCount \in Nat

\* C5: a call of vectorize either returns one object whose svg, quality and
\* metadata are all there and whole, or throws one Error whose message
\* contains the message of the exception the failing stage raised; it never
\* does both, and before it ends it has handed nothing to its caller.
C5_AllOrNothing ==
    /\ Len(returned) + Len(thrown) <= 1
    /\ (Len(returned) = 1) <=> (vecPc = "returned")
    /\ (Len(thrown) = 1) <=> (vecPc = "thrown")
    /\ vecPc = "returned" => CompleteResult(returned[1], quantRegions)
    /\ vecPc = "thrown" =>
          /\ Len(raised) = 1
          /\ thrown[1].isError
          /\ ContainsText(thrown[1].message, raised[1].error.message)

\* SVG generation has failed after the paths and regions were there
C5_Witness ==
    /\ vecPc = "thrown"
    /\ raised[1].stage = "SVG Generation"
    /\ Len(tracedPaths) > 0
    /\ Len(quantRegions) > 1
    /\ Len(thrown) = 1

----------------------------------------------------------------------------
(* Claims about edge detection, checked under SpecEdges *)

IsUniform(image) ==
    \A p, q \in Grid(image.width, image.height) : image.data[p] = image.data[q]

\* The pixels of the mask that are edges
EdgePixels(result) == imageDataToBooleanArray(result.edges).edges

\* C11: on a raster whose pixels are all identical, with any threshold >= 0,
\* SobelEdgeDetector.detect computes the gradient 0 (so magnitude 0) at every
\* pixel and returns a mask with no edge pixel.
C11_SobelUniform ==
    (detPc = "detected" /\ detOptions.type = "sobel" /\ IsUniform(imageData))
        => /\ \A p \in Grid(imageData.width, imageData.height) :
                 MagnitudeSq(detResult.gradient[p]) = 0
           /\ EdgePixels(detResult) = {}

\* A uniform grey raster with pixels off the border, detected with threshold 0
C11_Witness ==
    /\ detPc = "detected"
    /\ detOptions.type = "sobel"
    /\ detOptions.threshold = Frac(0, 1)
    /\ IsUniform(imageData)
    /\ imageData.width >= 4
    /\ imageData.height >= 3
    /\ imageData.data[Pt(0, 0)] = Grey100
    /\ EdgePixels(detResult) = {}

\* The column at which the white half begins
Boundary(image) == image.width \div 2

IsHalfBlackHalfWhite(image) ==
    /\ image.width >= 2
    /\ \A p \in Grid(image.width, image.height) :
          image.data[p] = IF p.x < Boundary(image) THEN Black ELSE White

\* C12: on a raster whose left half is black and whose right half is white,
\* SobelEdgeDetector.detect with threshold 50 marks every pixel off the
\* border of the two columns next to the boundary as an edge, and no pixel
\* of another column.
C12_SobelVerticalBoundary ==
    (/\ detPc = "detected"
     /\ detOptions.type = "sobel"
     /\ detOptions.threshold = Frac(50, 1)
     /\ IsHalfBlackHalfWhite(imageData))
        => \A p \in Grid(imageData.width, imageData.height) :
              /\ (IsInterior(imageData, p)
                    /\ p.x \in {Boundary(imageData) - 1, Boundary(imageData)})
                     => p \in EdgePixels(detResult)
              /\ p.x \notin {Boundary(imageData) - 1, Boundary(imageData)}
                     => p \notin EdgePixels(detResult)

\* A raster of six columns and four rows: the edges are the two pixels off
\* the border of column 2 and of column 3, columns 1 and 4 have none
C12_Witness ==
    /\ detPc = "detected"
    /\ detOptions.type = "sobel"
    /\ detOptions.threshold = Frac(50, 1)
    /\ IsHalfBlackHalfWhite(imageData)
    /\ imageData.width = 6
    /\ imageData.height = 4
    /\ EdgePixels(detResult) = {Pt(2, 1), Pt(2, 2), Pt(3, 1), Pt(3, 2)}

\* The thresholds that doubleThresholding is called with
LowThreshold ==
    IF detOptions.type = "adaptive"
    THEN Frac(calculateAdaptiveThreshold(imageData).num,
              2 * calculateAdaptiveThreshold(imageData).den)
    ELSE OrDefault(detOptions.lowThreshold, Frac(25, 1))

HighThreshold ==
    IF detOptions.type = "adaptive"
    THEN calculateAdaptiveThreshold(imageData)
    ELSE OrDefault(detOptions.highThreshold, Frac(75, 1))

AtMost(a, b) == a.num * b.den <= b.num * a.den

Adjacent8(p, q) == p # q /\ Abs(p.x - q.x) <= 1 /\ Abs(p.y - q.y) <= 1

\* The pixels with suppressed magnitude >= threshold
PixelsAtLeast(threshold) ==
    LET suppressed == CannySuppressed(imageData)
    IN  {p \in Grid(imageData.width, imageData.height) : AtLeast(suppressed[p], threshold)}

\* The pixels of within that a chain of 8-adjacent pixels of within joins to
\* a pixel of from
JoinedTo(from, within) ==
    LET RECURSIVE Grow(_)
        Grow(S) ==
            LET more == S \cup {p \in within : \E q \in S : Adjacent8(p, q)}
            IN  IF more = S THEN S ELSE Grow(more)
    IN  Grow(from \cap within)

IsCannyCall == detPc = "detected" /\ detOptions.type \in {"canny", "adaptive"}

\* C13: for lowThreshold <= highThreshold, the final edge set of Canny is the
\* set of pixels with suppressed magnitude >= lowThreshold that a chain of
\* 8-adjacent pixels of magnitude >= lowThreshold joins to a pixel of
\* magnitude >= highThreshold; so every strong pixel is kept and a weak pixel
\* without such a chain is dropped.
C13_Hysteresis ==
    (IsCannyCall /\ AtMost(LowThreshold, HighThreshold))
        => /\ EdgePixels(detResult)
                = JoinedTo(PixelsAtLeast(HighThreshold), PixelsAtLeast(LowThreshold))
           /\ PixelsAtLeast(HighThreshold) \subseteq EdgePixels(detResult)

\* A call that keeps a strong pixel and a weak pixel next to it and drops a
\* weak pixel that no chain joins to a strong one
C13_Witness ==
    /\ IsCannyCall
    /\ AtMost(LowThreshold, HighThreshold)
    /\ PixelsAtLeast(HighThreshold) # {}
    /\ EdgePixels(detResult) \ PixelsAtLeast(HighThreshold) # {}
    /\ PixelsAtLeast(LowThreshold) \ EdgePixels(detResult) # {}

\* The thresholds given to the detector are positive
PositiveThresholds ==
    CASE detOptions.type = "sobel" -> detOptions.threshold.num > 0
      [] detOptions.type = "canny" ->
            detOptions.lowThreshold.num > 0 /\ detOptions.highThreshold.num > 0
      [] OTHER -> detOptions.threshold.num > 0

BorderPixels(image) ==
    {p \in Grid(image.width, image.height) : ~IsInterior(image, p)}

\* C20: with positive thresholds, the pixels of the first and last row and
\* of the first and last column are not edges in the mask of the Sobel,
\* Canny and Adaptive detectors; so a raster narrower or shorter than 3
\* pixels gets a mask without an edge, and the call returns.
C20_BorderIsNeverEdge ==
    (detPc = "detected" /\ PositiveThresholds)
        => /\ BorderPixels(imageData) \cap EdgePixels(detResult) = {}
           /\ detResult.edges.width = imageData.width
           /\ detResult.edges.height = imageData.height
           /\ (imageData.width < 3 \/ imageData.height < 3) => EdgePixels(detResult) = {}

\* A Canny call with thresholds 25 and 75 whose mask has edges, all of them
\* off the border
C20_Witness ==
    /\ detPc = "detected"
    /\ detOptions.type = "canny"
    /\ detOptions.lowThreshold = Frac(25, 1)
    /\ detOptions.highThreshold = Frac(75, 1)
    /\ imageData.width >= 4
    /\ imageData.height >= 3
    /\ EdgePixels(detResult) # {}
    /\ BorderPixels(imageData) \cap EdgePixels(detResult) = {}

----------------------------------------------------------------------------
(* Claims about SVG emission, checked under SpecVectorize *)

ColorMode_Color == 0

ColorMode_Binary == 1

\* The <path> elements of the SVG text
PathElementsOf(text) == {text[i] : i \in {j \in 1..Len(text) : text[j].tag = "path"}}

SvgWritten == vecPc \in {"svg", "returned"}

\* C14: every <path> element has stroke #000000 when the colour mode is
\* binary and #ffffff for every other colour mode, and stroke-width
\* max(1, pathPrecision).
C14_StrokeByColorMode ==
    SvgWritten =>
        \A e \in PathElementsOf(svg) :
            /\ e.stroke = IF finalOptions.conversionSettings.colorMode = ColorMode_Binary
                          THEN "#000000" ELSE "#ffffff"
            /\ e.strokeWidth = MaxOf({1, finalOptions.conversionSettings.pathPrecision})

\* The positions of the elements of the SVG text with a tag
PositionsOf(text, tag) == {i \in 1..Len(text) : text[i].tag = tag}

RectsThenPaths(text) ==
    \A i \in PositionsOf(text, "rect"), j \in PositionsOf(text, "path") : i < j

\* C15 as stated: the SVG text has one <rect> for each region of the
\* segmentation stage and one <path> for each path of traceAllPaths, however
\* many points the path has, the rects before the paths.
C15_OnePathPerTracedPath ==
    SvgWritten =>
        /\ Cardinality(PositionsOf(svg, "rect")) = Len(quantRegions)
        /\ Cardinality(PositionsOf(svg, "path")) = Len(tracedPaths)
        /\ RectsThenPaths(svg)

\* C15, amended: the SVG text has one <rect> for each region and one <path>
\* for each traced path of two points or more, the rects before the paths;
\* a traced path of fewer than two points is not written.
C15_OnePathPerLongerPath ==
    SvgWritten =>
        /\ Cardinality(PositionsOf(svg, "rect")) = Len(quantRegions)
        /\ Cardinality(PositionsOf(svg, "path"))
             = Cardinality({i \in 1..Len(tracedPaths) : Len(tracedPaths[i].points) >= 2})
        /\ RectsThenPaths(svg)

\* An SVG text with rects and a path, from a call that also traced a path of
\* one point
C15_Witness ==
    /\ SvgWritten
    /\ PositionsOf(svg, "rect") # {}
    /\ PositionsOf(svg, "path") # {}
    /\ \E i \in 1..Len(tracedPaths) : Len(tracedPaths[i].points) = 1

----------------------------------------------------------------------------
(* Claims about the quality metrics, checked under SpecQuality *)

Clamp(v, lo, hi) == IF v < lo THEN lo ELSE IF v > hi THEN hi ELSE v

\* The number of <path> elements of the text handed to calculateQualityMetrics
PathCount == Cardinality(PositionsOf(svgText, "path"))

\* C16: for any processing time >= 0, accuracy is
\* round(clamp(100 - (ms / 1000) * 10, 60, 95)), within 60..95, and
\* smoothness is clamp(100 - 2 * pathCount, 50, 90), within 50..90, and no
\* text with more paths has a larger smoothness.
C16_QualityBounds ==
    qmPc = "measured" =>
        /\ 100 * quality.accuracy - 50 <= Clamp(10000 - qmTime, 6000, 9500)
        /\ Clamp(10000 - qmTime, 6000, 9500) < 100 * quality.accuracy + 50
        /\ quality.accuracy \in 60..95
        /\ quality.smoothness = Clamp(100 - 2 * PathCount, 50, 90)
        /\ quality.smoothness \in 50..90
        /\ \A n \in PathCount..MaxSvgPaths :
              calculateQualityMetrics(SvgOfPaths(n), qmTime).smoothness <= quality.smoothness

\* 3950 ms and 26 paths: accuracy is round(60.5) = 61 and smoothness is
\* clamped from 48 to 50
C16_Witness ==
    /\ qmPc = "measured"
    /\ qmTime = 3950
    /\ PathCount = 26
    /\ quality.accuracy = 61
    /\ quality.smoothness = 50

----------------------------------------------------------------------------
(* Claims about the regions, checked under SpecRegions and SpecMerge *)

Adjacent4(p, q) == Abs(p.x - q.x) + Abs(p.y - q.y) = 1

\* The points of S that a chain of 4-adjacent points of S joins to p
JoinedBy4(p, S) ==
    LET RECURSIVE Grow(_)
        Grow(T) ==
            LET more == T \cup {q \in S : \E t \in T : Adjacent4(q, t)}
            IN  IF more = T THEN T ELSE Grow(more)
    IN  Grow({p} \cap S)

IsFourConnected(region) ==
    \A p \in RegionPoints(region) : JoinedBy4(p, RegionPoints(region)) = RegionPoints(region)

\* Every pixel of the region has a colour within the threshold of the colour
\* of the first pixel
IsHomogeneous(region, threshold) ==
    \A i \in 1..Len(region.pixels) :
        colorDistanceSq(region.pixels[1].color, region.pixels[i].color)
              * threshold.den * threshold.den
            <= threshold.num * threshold.num

\* C17: every region returned by detectRegions is 4-connected, and each of
\* its pixels has RGBA distance <= regionGrowingThreshold to the colour of the
\* region's seed pixel, which is its first pixel.
C17_ConnectedAndHomogeneous ==
    segPc = "detected" =>
        \A i \in 1..Len(regions) :
            /\ Len(regions[i].pixels) >= 1
            /\ \A n \in 1..Len(regions[i].pixels) :
                  regions[i].pixels[n].color
                      = imageData.data[Pt(regions[i].pixels[n].x, regions[i].pixels[n].y)]
            /\ IsFourConnected(regions[i])
            /\ IsHomogeneous(regions[i], quantOptions.regionGrowingThreshold)

\* A detection with a region of three pixels or more that are not all of one
\* colour and that leaves out a pixel of the raster
C17_Witness ==
    /\ segPc = "detected"
    /\ \E i \in 1..Len(regions) :
          /\ Len(regions[i].pixels) >= 3
          /\ Cardinality(RangeOf(regions[i].colors)) >= 2
          /\ RegionPoints(regions[i]) # Grid(imageData.width, imageData.height)

\* sum / count rounds to mean, for Math.round
IsRoundedMean(mean, sum, count) ==
    2 * count * mean - count <= 2 * sum /\ 2 * sum < 2 * count * mean + count

ChannelSum(colors, channel) ==
    LET RECURSIVE Sum(_)
        Sum(n) == IF n = 0 THEN 0 ELSE colors[n][channel] + Sum(n - 1)
    IN  Sum(Len(colors))

RegionIsSound(region) ==
    /\ region.area = Len(region.pixels)
    /\ region.area = Len(region.colors)
    /\ region.area >= 1
    /\ \A channel \in {"r", "g", "b", "a"} :
          IsRoundedMean(region.averageColor[channel], ChannelSum(region.colors, channel),
                        Len(region.colors))
    /\ \A n \in 1..Len(region.pixels) :
          /\ region.boundingBox.minX <= region.pixels[n].x
          /\ region.pixels[n].x <= region.boundingBox.maxX
          /\ region.boundingBox.minY <= region.pixels[n].y
          /\ region.pixels[n].y <= region.boundingBox.maxY

\* C18: every region produced by detectRegions, and every region produced
\* from such regions by mergeSimilarRegions, has area equal to the length of
\* its pixel list and of its colour list, averageColor equal to the rounded
\* mean of its colour list in each channel, and a bounding box that contains
\* each of its pixels.
C18_RegionDataInvariant ==
    /\ \A i \in 1..Len(regions) : RegionIsSound(regions[i])
    /\ \A i \in 1..Len(merged) : RegionIsSound(merged[i])
    /\ \A i \in 1..Len(remerged) : RegionIsSound(remerged[i])

\* A merge that joined regions of different colours into a region whose red
\* mean is rounded up from a half
C18_Witness ==
    /\ segPc = "merged"
    /\ Len(merged) < Len(regions)
    /\ \E i \in 1..Len(merged) :
          /\ merged[i].area >= 2
          /\ (2 * ChannelSum(merged[i].colors, "r")) % (2 * merged[i].area) = merged[i].area
          /\ RegionIsSound(merged[i])

----------------------------------------------------------------------------
(* Claims about repeated calls, checked under SpecTwice *)

\* C19: every stage is a deterministic function of its inputs; for
\* KMeansColorQuantizer.quantize, two calls with the same raster and the same
\* options return identical clusters.
C19_QuantizeDeterministic ==
    kmPc = "again" => clustersAgain = clusters

----------------------------------------------------------------------------
(* Claims about failures and the order of the stages, checked under SpecVectorize *)

\* The texts that name a stage: the label given to measurePerformance and the
\* plain name of the stage
StageNames(stage) ==
    CASE stage = "Edge Detection" -> {"Edge Detection", "edge detection"}
      [] stage = "Path Tracing" -> {"Path Tracing", "path tracing"}
      [] stage = "Color Quantization" -> {"Color Quantization", "segmentation"}
      [] stage = "SVG Generation" -> {"SVG Generation", "SVG generation"}

\* C21: when a stage of vectorize throws, the error thrown to the caller has
\* the message "<stage> failed: <message>", which names the stage that failed.
C21_ErrorNamesStage ==
    vecPc = "thrown" =>
        \E name \in StageNames(raised[1].stage) :
            thrown[1].message = <<name, " failed: ">> \o raised[1].error.message

----------------------------------------------------------------------------
(* Claims about contour tracing, checked under SpecTrace *)

\* Adjacency in the neighbourhood of the configured tracer
TracerAdjacent(p, q) ==
    IF options.algorithm = "square-tracing" THEN Adjacent4(p, q) ELSE Adjacent8(p, q)

\* The pixels of a set in the order of a walk from start that always has
\* exactly one pixel left to go to
ChainOrder(pixels, start) ==
    LET RECURSIVE Walk(_, _)
        Walk(order, rest) ==
            LET nexts == {p \in rest : TracerAdjacent(order[Len(order)], p)}
            IN  IF Cardinality(nexts) = 1
                THEN LET next == CHOOSE p \in nexts : TRUE
                     IN  Walk(Append(order, next), rest \ {next})
                ELSE order
    IN  Walk(<<start>>, pixels \ {start})

\* The pixels form a simple open chain of n >= 3 pixels with start at one end
IsSimpleOpenChain(pixels, start) ==
    /\ start \in pixels
    /\ LET chain == ChainOrder(pixels, start)
       IN  /\ Len(chain) = Cardinality(pixels)
           /\ Len(chain) >= 3
           /\ \A i, j \in 1..Len(chain) :
                 i < j => (TracerAdjacent(chain[i], chain[j]) <=> j = i + 1)

IsChainTrace ==
    /\ tracePc = "traced"
    /\ options.algorithm \in {"moore-neighbor", "square-tracing"}
    /\ IsSimpleOpenChain(edgeMap.edges, startPoint)

\* C22: on a mask whose true pixels form a simple open chain of n >= 3 pixels,
\* tracePath of the Moore-Neighbor or Square-Tracing tracer started at an end
\* of the chain returns all n chain pixels in chain order, and the last point
\* of the path has no edge pixel of its neighbourhood outside the path.
C22_FollowsChain ==
    IsChainTrace =>
        /\ path.points = ChainOrder(edgeMap.edges, startPoint)
        /\ \A p \in edgeMap.edges :
              TracerAdjacent(path.points[Len(path.points)], p) => p \in RangeOf(path.points)

\* A path a tracer can return after at most width * height rounds of its loop:
\* no point twice, at most width * height points, every point inside the mask
IsBoundedPath(p) ==
    /\ \A i, j \in 1..Len(p.points) : i # j => p.points[i] # p.points[j]
    /\ Len(p.points) <= edgeMap.width * edgeMap.height
    /\ \A i \in 1..Len(p.points) :
          isValidPixel(p.points[i].x, p.points[i].y, edgeMap.width, edgeMap.height)

\* C23: for every mask and every start point of the mask, tracePath of the
\* Moore-Neighbor and of the Square-Tracing tracer returns a path with no
\* repeated point, at most width*height points and all points inside the mask;
\* traceAllPaths returns, with at most one path per edge pixel, each such a path.
C23_TracingIsBounded ==
    /\ (tracePc = "traced" /\ options.algorithm \in {"moore-neighbor", "square-tracing"})
          => IsBoundedPath(path)
    /\ (tracePc = "tracedAll")
          => /\ Len(paths) <= Cardinality(edgeMap.edges)
             /\ options.algorithm \in {"moore-neighbor", "square-tracing"}
                   => \A i \in 1..Len(paths) : IsBoundedPath(paths[i])

\* A trace that went round a block of pixels and came back to a visited pixel
C23_Witness ==
    /\ tracePc = "traced"
    /\ options.algorithm \in {"moore-neighbor", "square-tracing"}
    /\ Len(path.points) >= 4
    /\ Len(path.points) < edgeMap.width * edgeMap.height

----------------------------------------------------------------------------
(* Claims about merging and paint order, checked under SpecMerge *)

\* The pixels (position and colour) in the pixel lists of the regions of a list
AllPixels(rs) == UNION {RangeOf(rs[i].pixels) : i \in 1..Len(rs)}

\* How often the pixel p occurs in the pixel lists of the regions of a list
PixelCount(rs, p) ==
    LET hits(r) == Cardinality({i \in 1..Len(r.pixels) : r.pixels[i] = p})
    IN  SumOf(rs, hits)

AreaSum(rs) ==
    LET area(r) == r.area
    IN  SumOf(rs, area)

HasUniqueIds(rs) == \A i, j \in 1..Len(rs) : i # j => rs[i].id # rs[j].id

\* The input regions whose pixels the output region holds, by input position
MembersOf(output, input) ==
    {i \in 1..Len(input) : RangeOf(input[i].pixels) \subseteq RangeOf(output.pixels)}

\* C24: for an input list with unique ids mergeSimilarRegions puts every input
\* region in exactly one output region: pixel multiset and area sum are kept,
\* output ids are unique, and every member of a group is within
\* similarityThreshold of the group's representative, its first member in input
\* order, whose id the group carries.
C24_MergeConservesRegions ==
    (segPc = "merged" /\ HasUniqueIds(regions)) =>
        /\ \A p \in AllPixels(regions) \cup AllPixels(merged) :
              PixelCount(merged, p) = PixelCount(regions, p)
        /\ AreaSum(merged) = AreaSum(regions)
        /\ HasUniqueIds(merged)
        /\ \A i \in 1..Len(regions) :
              Cardinality({k \in 1..Len(merged) : i \in MembersOf(merged[k], regions)}) = 1
        /\ \A k \in 1..Len(merged) :
              LET members == MembersOf(merged[k], regions)
                  representative == regions[MinOf(members)]
              IN  /\ merged[k].id = representative.id
                  /\ \A i \in members :
                        colorDistanceSq(regions[i].averageColor, representative.averageColor)
                            * quantOptions.colorSimilarityThreshold.den
                            * quantOptions.colorSimilarityThreshold.den
                          <= quantOptions.colorSimilarityThreshold.num
                             * quantOptions.colorSimilarityThreshold.num

\* A merge that formed a group of two or more regions and left another region
C24_Witness ==
    /\ segPc = "merged"
    /\ HasUniqueIds(regions)
    /\ Len(merged) >= 2
    /\ \E k \in 1..Len(merged) : Cardinality(MembersOf(merged[k], regions)) >= 2

----------------------------------------------------------------------------
(* Paint order of the regions handed to generateSVG, checked under SpecVectorize *)

IsByArea(rs, hierarchicalMode) ==
    \A i \in 1..(Len(rs) - 1) :
        IF hierarchicalMode = 0 THEN rs[i].area >= rs[i + 1].area
        ELSE rs[i].area <= rs[i + 1].area

\* C25: the region list that vectorize hands to generateSVG is in order of
\* non-increasing area in stacked mode (hierarchical = 0) and of non-decreasing
\* area in cutout mode, and the rects are written in that order.
C25_PaintOrder ==
    /\ vecPc \in {"regions", "svg", "returned"}
          => IsByArea(quantRegions, finalOptions.conversionSettings.hierarchical)
    /\ vecPc \in {"svg", "returned"}
          => LET IsRect(e) == e.tag = "rect"
             IN  [i \in 1..Len(quantRegions) |-> generateRegionSVG(quantRegions[i])]
                   = SelectSeq(svg, IsRect)

----------------------------------------------------------------------------
(* The order of the stages of vectorize, checked under SpecVectorize *)

\* The stages that have completed when the call is at pc
CompletedAt(pc) ==
    CASE pc = "called" -> {}
      [] pc = "edges" -> {"Edge Detection"}
      [] pc = "paths" -> {"Edge Detection", "Path Tracing"}
      [] pc = "regions" -> {"Edge Detection", "Path Tracing", "Color Quantization"}
      [] pc \in {"svg", "returned"} ->
            {"Edge Detection", "Path Tracing", "Color Quantization", "SVG Generation"}
      [] OTHER -> {}

\* A step in which the stage runs, to completion or to its failure
Runs(stage) ==
    /\ vecPc' # vecPc
    /\ \/ stage \in CompletedAt(vecPc') \ CompletedAt(vecPc)
       \/ vecPc' = "thrown" /\ raised'[Len(raised')].stage = stage

\* A step that computes the quality metrics and the metadata
ComputesQuality == returned' # returned

\* C26: in every execution of vectorize path tracing starts only after edge
\* detection has completed, SVG generation only after path tracing and
\* segmentation have completed, quality metrics and metadata only after SVG
\* generation has completed, and after a stage has failed no stage starts.
C26_StageOrdering ==
    [][/\ Runs("Path Tracing") => "Edge Detection" \in CompletedAt(vecPc)
       /\ Runs("SVG Generation")
             => {"Path Tracing", "Color Quantization"} \subseteq CompletedAt(vecPc)
       /\ ComputesQuality => "SVG Generation" \in CompletedAt(vecPc)
       /\ \A stage \in {"Edge Detection", "Path Tracing", "Color Quantization",
                         "SVG Generation"} :
             Runs(stage) => (raised = << >> /\ CompletedAt(vecPc') \ CompletedAt(vecPc) \subseteq {stage})
       /\ ComputesQuality => raised = << >>]_vars

\* SVG generation failed after tracing and segmentation had completed, and
\* nothing was generated or returned
C26_Witness ==
    /\ vecPc = "thrown"
    /\ raised[1].stage = "SVG Generation"
    /\ Len(tracedPaths) > 0
    /\ Len(quantRegions) > 0
    /\ svg = << >>
    /\ returned = << >>

----------------------------------------------------------------------------
(* Two calls of CustomVectorizer.vectorize whose await points interleave.    *)
(* A call runs from one await to the next without interruption; the calls    *)
(* share the DEFAULT_OPTIONS object, and the options a call works with hold  *)
(* the nested objects of DEFAULT_OPTIONS themselves for every key the caller  *)
(* did not give.                                                             *)

Calls == {1, 2}

IsoRasters == {r \in VecRasters : r.width = 3 /\ r.data[Pt(0, 0)] = Black}

IsoOptions ==
    {o \in VecOptions :
        /\ o.customSettings.edgeDetection.sobelThreshold = Frac(50, 1)
        /\ o.customSettings.pathTracing.algorithm = "moore-neighbor"
        /\ "pathTracing" \in DOMAIN o => o.pathTracing.minPathLength = 0}

DefaultsAfterSpreadMutant(defaults, given) == MergeOptions(defaults, given)

\* What { ...this.DEFAULT_OPTIONS, ...options } leaves in DEFAULT_OPTIONS: the
\* spread copies into a new object
DefaultsAfterSpread(defaults, given) == defaults

\* finalOptions of a call, read through the nested objects it refers to
FinalOptionsOf(c) == MergeOptions(sharedDefaults, isoCalls[c].given)

InFlight(c) == isoCalls[c].pc \in {"edges", "paths", "regions", "svg"}

\* The call takes a step while the other call is between two of its awaits
Overlaps(c) == isoCalls[c].overlapped \/ \E d \in Calls \ {c} : InFlight(d)

IsoInit ==
    /\ isoCalls \in [Calls -> {[pc |-> "called", image |-> r, given |-> o,
                                edges |-> NoEdges, paths |-> << >>, regions |-> << >>,
                                svg |-> << >>, returned |-> << >>, thrown |-> << >>,
                                overlapped |-> FALSE] :
                                   r \in IsoRasters, o \in IsoOptions}]
    /\ sharedDefaults = DEFAULT_OPTIONS

\* vectorize up to its first await: the options are merged and edge detection runs
IsoEdgeDetection ==
    \E c \in Calls :
        /\ isoCalls[c].pc = "called"
        /\ sharedDefaults' = DefaultsAfterSpread(sharedDefaults, isoCalls[c].given)
        /\ isoCalls' = [isoCalls EXCEPT
              ![c].pc = "edges",
              ![c].edges = performEdgeDetection(isoCalls[c].image,
                               MergeOptions(sharedDefaults', isoCalls[c].given)),
              ![c].overlapped = Overlaps(c)]
        /\ UNCHANGED notIsoVars

IsoPathTracing ==
    \E c \in Calls :
        /\ isoCalls[c].pc = "edges"
        /\ isoCalls' = [isoCalls EXCEPT
              ![c].pc = "paths",
              ![c].paths = performPathTracing(isoCalls[c].edges, FinalOptionsOf(c)),
              ![c].overlapped = Overlaps(c)]
        /\ UNCHANGED <<sharedDefaults, notIsoVars>>

IsoColorQuantization ==
    \E c \in Calls :
        /\ isoCalls[c].pc = "paths"
        /\ isoCalls' = [isoCalls EXCEPT
              ![c].pc = "regions",
              ![c].regions = performColorQuantization(isoCalls[c].image, FinalOptionsOf(c)),
              ![c].overlapped = Overlaps(c)]
        /\ UNCHANGED <<sharedDefaults, notIsoVars>>

IsoGenerateSVG ==
    \E c \in Calls :
        /\ isoCalls[c].pc = "regions"
        /\ isoCalls' = [isoCalls EXCEPT
              ![c].pc = "svg",
              ![c].svg = generateSVG(isoCalls[c].paths, isoCalls[c].regions,
                                     isoCalls[c].image, FinalOptionsOf(c)),
              ![c].overlapped = Overlaps(c)]
        /\ UNCHANGED <<sharedDefaults, notIsoVars>>

IsoReturnResult ==
    \E c \in Calls, processingTime \in ProcessingTimes :
        /\ isoCalls[c].pc = "svg"
        /\ isoCalls' = [isoCalls EXCEPT
              ![c].pc = "returned",
              ![c].returned =
                  << [svg |-> isoCalls[c].svg,
                      quality |-> calculateQualityMetrics(isoCalls[c].svg, processingTime),
                      metadata |-> calculateMetadata(isoCalls[c].image, isoCalls[c].paths,
                                                     isoCalls[c].regions)] >>,
              ![c].overlapped = Overlaps(c)]
        /\ UNCHANGED <<sharedDefaults, notIsoVars>>

IsoStageThrows ==
    \E c \in Calls, error \in StageErrors :
        /\ isoCalls[c].pc \in {"called", "edges", "paths", "regions"}
        /\ sharedDefaults' = IF isoCalls[c].pc = "called"
                             THEN DefaultsAfterSpread(sharedDefaults, isoCalls[c].given)
                             ELSE sharedDefaults
        /\ isoCalls' = [isoCalls EXCEPT
              ![c].pc = "thrown",
              ![c].thrown = << WrapError(error) >>,
              ![c].overlapped = Overlaps(c)]
        /\ UNCHANGED notIsoVars

IsolationSpecInit ==
    IsoInit /\ NoImage /\ TraceIdle /\ SegIdle /\ KmIdle /\ VecIdle /\ DetIdle /\ QmIdle
            /\ QueueIdle

IsolationNext ==
    \/ IsoEdgeDetection
    \/ IsoPathTracing
    \/ IsoColorQuantization
    \/ IsoGenerateSVG
    \/ IsoReturnResult
    \/ IsoStageThrows

SpecIsolation == IsolationSpecInit /\ [][IsolationNext]_vars

\* What vectorize(image, given) returns when no other call runs
RunAlone(image, given) ==
    LET final == MergeOptions(DEFAULT_OPTIONS, given)
        edges == performEdgeDetection(image, final)
        ps == performPathTracing(edges, final)
        rs == performColorQuantization(image, final)
    IN  [svg |-> generateSVG(ps, rs, image, final),
         metadata |-> calculateMetadata(image, ps, rs)]

\* C27: when two vectorize calls run with their await points interleaved in any
\* order, each call returns the svg and the metadata it returns when run
\* alone, and the DEFAULT_OPTIONS object with its nested objects is never
\* modified.
C27_RequestIsolation ==
    /\ sharedDefaults = DEFAULT_OPTIONS
    /\ \A c \in Calls :
          isoCalls[c].pc = "returned" =>
              LET alone == RunAlone(isoCalls[c].image, isoCalls[c].given)
              IN  /\ isoCalls[c].returned[1].svg = alone.svg
                  /\ isoCalls[c].returned[1].metadata = alone.metadata

\* Both calls returned after steps taken while the other call was between two
\* awaits, with different rasters and different options, one call on the
\* nested default objects
C27_Witness ==
    /\ \A c \in Calls : isoCalls[c].pc = "returned" /\ isoCalls[c].overlapped
    /\ isoCalls[1].image # isoCalls[2].image
    /\ DOMAIN isoCalls[1].given = {"customSettings"}
    /\ "pathTracing" \in DOMAIN isoCalls[2].given
    /\ isoCalls[1].returned[1].svg # isoCalls[2].returned[1].svg

----------------------------------------------------------------------------
(* The rounds of runKMeans, checked under SpecKMeans *)

\* Some centroid of the list to is farther than convergenceThreshold from the
\* centroid of the list from at the same index
MovedFar(from, to) ==
    \E i \in 1..Len(from) :
        colorDistanceSq(from[i], to[i])
              * quantOptions.convergenceThreshold.den * quantOptions.convergenceThreshold.den
            > quantOptions.convergenceThreshold.num * quantOptions.convergenceThreshold.num

\* The centroids at the end of round r of the run
CentroidsAfter(r) ==
    IF r < kmRun.iteration THEN kmRun.starts[r + 1] ELSE Centroids(clusters)

\* How often the colour occurs in a list of colours
ColorCount(colors, color) == Cardinality({n \in 1..Len(colors) : colors[n] = color})

\* C28: runKMeans makes at most maxIterations rounds and stops after the first
\* round in which no centroid moved by more than convergenceThreshold; it
\* returns exactly k clusters, every deduplicated colour is a member of exactly
\* one cluster, the lowest-numbered of those whose centroid was nearest when the
\* colour was assigned, and a cluster without members keeps its centroid.
C28_KMeansLoop ==
    kmPc = "ran" =>
        /\ kmRun.iteration <= quantOptions.maxIterations
        /\ Len(kmRun.starts) = kmRun.iteration
        /\ \A r \in 1..(kmRun.iteration - 1) : MovedFar(kmRun.starts[r], CentroidsAfter(r))
        /\ kmRun.hasConverged <=> ~MovedFar(kmRun.starts[kmRun.iteration],
                                            CentroidsAfter(kmRun.iteration))
        /\ ~kmRun.hasConverged => kmRun.iteration = quantOptions.maxIterations
        /\ Len(clusters) = quantOptions.kMeansClusters
        /\ \A n \in 1..Len(kmColors) :
              LET color == kmColors[n]
                  holders == {i \in 1..Len(clusters) : ColorCount(clusters[i].pixels, color) > 0}
                  assigned == kmRun.starts[kmRun.iteration]
              IN  /\ Cardinality(holders) = 1
                  /\ \A i \in holders :
                        /\ ColorCount(clusters[i].pixels, color) = ColorCount(kmColors, color)
                        /\ \A j \in 1..Len(clusters) :
                              colorDistanceSq(color, assigned[i]) <= colorDistanceSq(color, assigned[j])
                        /\ \A j \in 1..(i - 1) :
                              colorDistanceSq(color, assigned[i]) < colorDistanceSq(color, assigned[j])
        /\ \A i \in 1..Len(clusters) :
              Len(clusters[i].pixels) = 0 => clusters[i].centroid = kmRun.starts[kmRun.iteration][i]

\* A run of two rounds that stopped on convergence, in which a colour was as
\* near to two centroids and one cluster was left without members
C28_Witness ==
    /\ kmPc = "ran"
    /\ kmRun.iteration = 2
    /\ kmRun.hasConverged
    /\ \E i \in 1..Len(clusters) : Len(clusters[i].pixels) = 0
    /\ \E n \in 1..Len(kmColors), i, j \in 1..Len(clusters) :
          /\ i < j
          /\ ColorCount(clusters[i].pixels, kmColors[n]) > 0
          /\ colorDistanceSq(kmColors[n], kmRun.starts[2][i])
                = colorDistanceSq(kmColors[n], kmRun.starts[2][j])

----------------------------------------------------------------------------
(* Canny on uniform rasters, checked under SpecEdges *)

\* C29: on a raster of any size whose pixels are all identical,
\* CannyEdgeDetector.detect with the thresholds 25 and 75 and
\* AdaptiveEdgeDetector.detect return a mask with no edge pixel.
C29_CannyUniform ==
    (/\ detPc = "detected"
     /\ IsUniform(imageData)
     /\ \/ detOptions.type = "adaptive"
        \/ /\ detOptions.type = "canny"
           /\ detOptions.lowThreshold = Frac(25, 1)
           /\ detOptions.highThreshold = Frac(75, 1))
        => EdgePixels(detResult) = {}

----------------------------------------------------------------------------
(* The ConversionQueue component: its queue of jobs and the handlers of the  *)
(* Convert, Pause and Retry buttons.  A handler called by a click reads the  *)
(* state of the latest render; a processing loop keeps the queue it read     *)
(* when it started, and its status updates apply to the current queue.  The *)
(* jobs are known by their position in the queue, their ids being unique.    *)

Job(status, progress) == [status |-> status, progress |-> progress]

\* updateJobStatus(jobId, status, progress, ...) applied to the queue q, for
\* the job at position j
updateJobStatus(q, j, status, progress) == [q EXCEPT ![j] = Job(status, progress)]

\* The position of the job a loop takes after the job at loop.index, 0 when
\* none is left: startProcessing takes every job of its queue in turn,
\* retryJob every job that was ready in the queue it read
NextJob(loop) ==
    LET left == IF loop.kind = "start"
                THEN {j \in 1..Len(loop.snapshot) : j > loop.index}
                ELSE {j \in 1..Len(loop.snapshot) :
                         j > loop.index /\ loop.snapshot[j].status = "ready"}
    IN  IF left = {} THEN 0 ELSE MinOf(left)

\* A loop of startProcessing waits for its timer and then for its request; a
\* loop of retryJob sends its request at once
AwaitOf(kind) == IF kind = "start" THEN "timer" ELSE "fetch"

RemoveAt(seq, l) == SubSeq(seq, 1, l - 1) \o SubSeq(seq, l + 1, Len(seq))

QueueInit ==
    /\ \E n \in 1..MaxJobs : jobQueue = [j \in 1..n |-> Job("ready", 0)]
    /\ isProcessing = FALSE
    /\ completedCount = 0
    /\ errorCount = 0
    /\ loops = << >>

\* A click on "Convert to SVG", shown while isProcessing is false:
\* startProcessing up to its first await
StartProcessing ==
    /\ ~isProcessing
    /\ Len(jobQueue) > 0
    /\ Len(loops) < MaxLoops
    /\ isProcessing' = TRUE
    /\ completedCount' = 0
    /\ errorCount' = 0
    /\ jobQueue' = updateJobStatus(jobQueue, 1, "processing", 0)
    /\ loops' = Append(loops, [kind |-> "start", snapshot |-> jobQueue, index |-> 1,
                               at |-> "timer"])
    /\ UNCHANGED notQueueVars

\* A click on "Pause", shown while isProcessing is true
PauseProcessing ==
    /\ isProcessing
    /\ isProcessing' = FALSE
    /\ UNCHANGED <<jobQueue, completedCount, errorCount, loops, notQueueVars>>

\* A click on "Retry", shown for a job with status error: retryJob up to its
\* first await
RetryJob ==
    \E j \in 1..Len(jobQueue) :
        /\ jobQueue[j].status = "error"
        /\ LET asReady == updateJobStatus(jobQueue, j, "ready", 0)
               loop == [kind |-> "retry", snapshot |-> jobQueue, index |-> j, at |-> "fetch"]
               first == NextJob(loop)
           IN  IF isProcessing
               THEN /\ jobQueue' = asReady
                    /\ UNCHANGED <<isProcessing, loops>>
               ELSE IF first = 0
               THEN /\ jobQueue' = asReady
                    /\ isProcessing' = FALSE
                    /\ UNCHANGED loops
               ELSE /\ Len(loops) < MaxLoops
                    /\ jobQueue' = updateJobStatus(asReady, first, "processing", 0)
                    /\ isProcessing' = TRUE
                    /\ loops' = Append(loops, [loop EXCEPT !.index = first])
        /\ UNCHANGED <<completedCount, errorCount, notQueueVars>>

\* The one-second timer of a loop of startProcessing fires and convertFile
\* sends its request
TimerFires ==
    \E l \in 1..Len(loops) :
        /\ loops[l].at = "timer"
        /\ loops' = [loops EXCEPT ![l].at = "fetch"]
        /\ UNCHANGED <<jobQueue, isProcessing, completedCount, errorCount, notQueueVars>>

\* The loop l goes on after its job got the status given: to its next job, or
\* to its end, where it sets isProcessing to false
LoopGoesOn(l, status, progress) ==
    LET done == updateJobStatus(jobQueue, loops[l].index, status, progress)
        next == NextJob(loops[l])
    IN  IF next = 0
        THEN /\ jobQueue' = done
             /\ loops' = RemoveAt(loops, l)
             /\ isProcessing' = FALSE
        ELSE /\ jobQueue' = updateJobStatus(done, next, "processing", 0)
             /\ loops' = [loops EXCEPT ![l].index = next, ![l].at = AwaitOf(loops[l].kind)]
             /\ UNCHANGED isProcessing

\* The request of a loop completes with an SVG
RequestSucceeds ==
    \E l \in 1..Len(loops) :
        /\ loops[l].at = "fetch"
        /\ completedCount < MaxCount
        /\ LoopGoesOn(l, "completed", 100)
        /\ completedCount' = completedCount + 1
        /\ UNCHANGED <<errorCount, notQueueVars>>

\* The request of a loop fails: HTTP error, missing svg, or network error
RequestFails ==
    \E l \in 1..Len(loops) :
        /\ loops[l].at = "fetch"
        /\ errorCount < MaxCount
        /\ LoopGoesOn(l, "error", 0)
        /\ errorCount' = errorCount + 1
        /\ UNCHANGED <<completedCount, notQueueVars>>

QueueSpecInit ==
    QueueInit /\ NoImage /\ TraceIdle /\ SegIdle /\ KmIdle /\ VecIdle /\ DetIdle /\ QmIdle
              /\ IsoIdle

QueueNext ==
    \/ StartProcessing
    \/ PauseProcessing
    \/ RetryJob
    \/ TimerFires
    \/ RequestSucceeds
    \/ RequestFails

SpecQueue == QueueSpecInit /\ [][QueueNext]_vars

ProcessingJobs == {j \in 1..Len(jobQueue) : jobQueue[j].status = "processing"}

RequestsInFlight == {l \in 1..Len(loops) : loops[l].at = "fetch"}

\* C30: whatever the order of Convert, Pause and Retry clicks and of request
\* completions, at most one job has the status processing and at most one
\* conversion request is in flight.
C30_SequentialQueue ==
    /\ Cardinality(ProcessingJobs) <= 1
    /\ Cardinality(RequestsInFlight) <= 1

====
